---- MODULE Spec2Model ----
(***************************************************************************)
(* A model of the DMA controller (libmemetendo/src/dma.rs) and of the      *)
(* host step loop (libmemetendo/src/gba.rs) of the emulator core.          *)
(*                                                                         *)
(* The DMA controller is a set of four channels driven by three            *)
(* operations: register byte writes (Bus::write_byte), trigger             *)
(* notifications (Dma::notify) and transfer steps (Dma::step).  The host   *)
(* step (Gba::step) composes one CPU instruction, the video notifications  *)
(* and one DMA step.                                                       *)
(***************************************************************************)
EXTENDS Integers, Naturals, Sequences, FiniteSets, TLC

VARIABLES
    dma,      \* Dma.0: the four channels, [0..3 -> Channel]
    effect,   \* what the last Dma::step returned: NoEffect or the closure's captures
    irqReq,   \* the interrupts passed to Irq::request by the last operation
    haltcnt,  \* HaltControl.0: "Running", "Halted" or "Stopped"
    cpuRan,   \* whether the last Gba::step executed a CPU instruction
    last,     \* the last operation: its name, channel and what it did
    nsteps,   \* how many steps have been taken (bounded by MaxSteps)
    nwrites,  \* how many register writes have been made (bounded by MaxWrites)
    mem,      \* Gba.ewram and Gba.iwram: the half-words of their first 16 bytes
    irq,      \* Gba.irq: the interrupts enabled and the interrupts requested
    reg,      \* the CPU's Registers: r, cpsr, spsr, banks, fiq_r8_12_bank
    entry,    \* history: the Registers as they were when FIQ mode was last entered
    lastLeft  \* history: per bank, the SP, LR and SPSR current when it was last left

vars == <<dma, effect, irqReq, haltcnt, cpuRan, last, nsteps, nwrites, mem, irq,
          reg, entry, lastLeft>>

\* the machine around the DMA controller and the halt unit
machine == <<mem, irq, reg, entry, lastLeft>>

----------------------------------------------------------------------------
(* Bit helpers: intbits::Bits on unsigned integers.                        *)

\* the element of a one-element set (used to name an intermediate value)
Only(S) == CHOOSE x \in S : TRUE

Pow2(n) == 2 ^ n

\* Bits::bit(i)
Bit(v, i) == (v \div Pow2(i)) % 2 = 1

\* Bits::bits(lo..hi)
Bits(v, lo, hi) == (v \div Pow2(lo)) % Pow2(hi - lo)

\* Bits::set_bits(lo..hi, b)
SetBits(v, lo, hi, b) ==
    v - Bits(v, lo, hi) * Pow2(lo) + (b % Pow2(hi - lo)) * Pow2(lo)

\* Bits::set_bit(i, b)
SetBit(v, i, b) == SetBits(v, i, i + 1, IF b THEN 1 ELSE 0)

\* A u32 address is kept as its two 16-bit halves <<high, low>>, so that
\* arithmetic modulo 2^32 stays within the model checker's integers.
Half == Pow2(16)
Addr(hi, lo) == <<hi, lo>>

\* u32::wrapping_add, for an offset below 2^16
WrappingAdd(a, off) ==
    LET sum == a[2] + off
    IN  <<(a[1] + sum \div Half) % Half, sum % Half>>

\* u32::wrapping_sub, for an offset below 2^16
WrappingSub(a, off) ==
    LET borrow == IF a[2] < off THEN 1 ELSE 0
    IN  <<(a[1] + Half - borrow) % Half, (a[2] + Half - off) % Half>>

----------------------------------------------------------------------------
(* Channel state.                                                          *)

\* Dma([Channel; 4])
NumChannels == 4
Channels == 0 .. NumChannels - 1

\* Channel::default()
DefaultChannel ==
    [ initial_src_addr |-> Addr(0, 0), initial_dst_addr |-> Addr(0, 0),
      initial_blocks |-> 0,
      src_addr_ctrl |-> 0, dst_addr_ctrl |-> 0, repeat |-> FALSE,
      transfer_word |-> FALSE, cart_drq |-> FALSE, timing_mode |-> 0,
      irq_enabled |-> FALSE, enabled |-> FALSE, cached_dmacnt_hi_bits |-> 0,
      src_addr |-> Addr(0, 0), dst_addr |-> Addr(0, 0), rem_blocks |-> 0,
      state |-> "None" ]

\* Dma::new()
DmaNew == [c \in Channels |-> DefaultChannel]

\* an audio FIFO mode that forgets the restriction to channels 1 and 2
in_audio_fifo_mode_any_channel(d, chan_idx) ==
    d[chan_idx].timing_mode = 3

\* Dma::in_audio_fifo_mode
in_audio_fifo_mode(d, chan_idx) ==
    chan_idx \in 1 .. 2 /\ d[chan_idx].timing_mode = 3

\* the per-channel maximum block count of start_transfer
max_blocks(chan_idx) == IF chan_idx = 3 THEN 65536 ELSE 16384

\* start_transfer without the clamp of lines 64-67
start_transfer_unclamped(d, chan_idx) ==
    LET chan == d[chan_idx]
    IN  IF ~chan.enabled \/ chan.state # "None"
        THEN d
        ELSE [d EXCEPT ![chan_idx] =
                [chan EXCEPT
                   !.rem_blocks = IF in_audio_fifo_mode(d, chan_idx) THEN 4
                                  ELSE chan.rem_blocks,
                   !.state = "StartingTransfer"]]

\* Dma::start_transfer
start_transfer(d, chan_idx) ==
    LET chan == d[chan_idx]
        audio_fifo == in_audio_fifo_mode(d, chan_idx)
    IN  IF ~chan.enabled \/ chan.state # "None"
        THEN d
        ELSE [d EXCEPT ![chan_idx] =
                [chan EXCEPT
                   !.rem_blocks =
                       IF audio_fifo THEN 4
                       ELSE IF chan.rem_blocks = 0
                               \/ chan.rem_blocks > max_blocks(chan_idx)
                            THEN max_blocks(chan_idx)
                            ELSE chan.rem_blocks,
                   !.state = "StartingTransfer"]]

\* a test that looks at the first channel alone
transfer_in_progress_first_channel(d) == d[0].state # "None"

\* Dma::transfer_in_progress
transfer_in_progress(d) == \E c \in Channels : d[c].state # "None"

----------------------------------------------------------------------------
(* Dma::step.                                                              *)

\* Option::None of the closure Dma::step returns, and "no channel serviced"
NoEffect == [chan |-> NumChannels, blocks |-> 0]
NoChan == NumChannels

\* an address update that never moves the address
update_addr_never_moves(addr, ctrl, offset) == addr

\* the update_addr closure of Dma::step
update_addr(addr, ctrl, offset) ==
    CASE ctrl \in {0, 3} -> WrappingAdd(addr, offset)
      [] ctrl = 1        -> WrappingSub(addr, offset)
      [] ctrl = 2        -> addr

\* a scan that takes the first enabled channel, started or not
serviced_any_enabled(d) ==
    IF \E c \in Channels : d[c].enabled
    THEN CHOOSE c \in Channels : d[c].enabled /\ \A o \in 0 .. c - 1 : ~d[o].enabled
    ELSE NoChan

\* the channel Dma::step services: the first one its loop does not skip
serviced(d) ==
    LET ready == {c \in Channels : d[c].enabled /\ d[c].state # "None"}
    IN  IF ready = {} THEN NoChan
        ELSE CHOOSE c \in ready : \A o \in ready : c <= o

\* the units one step moves: chan.rem_blocks.min(cycles.into())
step_blocks(chan, cycles) ==
    IF chan.rem_blocks < cycles THEN chan.rem_blocks ELSE cycles

\* the captures of the closure Dma::step returns for a channel (and the
\* channel it was built for)
step_effect(d, chan_idx, cycles) ==
    LET chan          == d[chan_idx]
        audio_fifo    == in_audio_fifo_mode(d, chan_idx)
        transfer_word == audio_fifo \/ chan.transfer_word
    IN  [ chan |-> chan_idx,
          blocks |-> step_blocks(chan, cycles),
          src_addr |-> chan.src_addr,
          dst_addr |-> chan.dst_addr,
          src_addr_ctrl |-> chan.src_addr_ctrl,
          dst_addr_ctrl |-> IF audio_fifo THEN 2 ELSE chan.dst_addr_ctrl,
          transfer_word |-> transfer_word,
          stride |-> IF transfer_word THEN 4 ELSE 2 ]

\* lines 95-115 of Dma::step: the channel after its addresses and its
\* remaining blocks are moved on by the units of effect e
advance(chan, e) ==
    [chan EXCEPT
       !.state = "Transferring",
       !.src_addr = update_addr(chan.src_addr, e.src_addr_ctrl, e.stride * e.blocks),
       !.dst_addr = update_addr(chan.dst_addr, e.dst_addr_ctrl, e.stride * e.blocks),
       !.rem_blocks = chan.rem_blocks - e.blocks]

\* the end of a transfer that forgets to clear the enable flag
complete_keeps_enabled(chan) ==
    IF chan.rem_blocks # 0 THEN chan
    ELSE [chan EXCEPT
            !.state = "None",
            !.dst_addr = IF chan.repeat /\ chan.dst_addr_ctrl = 3
                         THEN chan.initial_dst_addr ELSE chan.dst_addr,
            !.rem_blocks = IF chan.repeat THEN chan.initial_blocks
                           ELSE chan.rem_blocks]

\* lines 116-125 of Dma::step: the end of a transfer
complete(chan) ==
    IF chan.rem_blocks # 0 THEN chan
    ELSE [chan EXCEPT
            !.state = "None",
            !.enabled = chan.repeat,
            !.dst_addr = IF chan.repeat /\ chan.dst_addr_ctrl = 3
                         THEN chan.initial_dst_addr ELSE chan.dst_addr,
            !.rem_blocks = IF chan.repeat THEN chan.initial_blocks
                           ELSE chan.rem_blocks]

\* an interrupt request that ignores the IRQ-on-complete flag
irq_request_unmasked(chan, chan_idx) ==
    IF chan.rem_blocks = 0 THEN {chan_idx} ELSE {}

\* lines 126-134 of Dma::step: the interrupts requested for a channel that
\* has just been advanced
irq_request(chan, chan_idx) ==
    IF chan.rem_blocks = 0 /\ chan.irq_enabled THEN {chan_idx} ELSE {}

\* the body of the loop of Dma::step for the channel it services.  (The
\* EEPROM hint of lines 89-94 goes to the cartridge, an external
\* collaborator, and changes no DMA state.)
step_channel(d, chan_idx, cycles) ==
    LET e     == step_effect(d, chan_idx, cycles)
        moved == advance(d[chan_idx], e)
    IN  [ dma    |-> [d EXCEPT ![chan_idx] = complete(moved)],
          effect |-> e,
          irq    |-> irq_request(moved, chan_idx) ]

\* Dma::step
step(d, cycles) ==
    IF serviced(d) = NoChan
    THEN [dma |-> d, effect |-> NoEffect, irq |-> {}]
    ELSE step_channel(d, serviced(d), cycles)

----------------------------------------------------------------------------
(* Dma::notify.                                                            *)

Events == {"VBlank", "HBlank", "AudioFifoA", "AudioFifoB"}

\* event_timing_mode of Dma::notify
event_timing_mode(event) ==
    CASE event = "VBlank" -> 1
      [] event = "HBlank" -> 2
      [] event \in {"AudioFifoA", "AudioFifoB"} -> 3

\* fifo_addr of Dma::notify: 0x0400_00a0, 0x0400_00a4 or None
NoAddr == <<>>
fifo_addr(event) ==
    CASE event = "AudioFifoA" -> Addr(1024, 160)
      [] event = "AudioFifoB" -> Addr(1024, 164)
      [] OTHER -> NoAddr

\* a match that forgets to compare the destination with the FIFO's address
notify_matches_any_dst(d, chan_idx, event) ==
    /\ d[chan_idx].enabled
    /\ d[chan_idx].timing_mode = event_timing_mode(event)
    /\ fifo_addr(event) # NoAddr => in_audio_fifo_mode(d, chan_idx)

\* whether the loop of Dma::notify reaches start_transfer for a channel
notify_matches(d, chan_idx, event) ==
    /\ d[chan_idx].enabled
    /\ d[chan_idx].timing_mode = event_timing_mode(event)
    /\ fifo_addr(event) # NoAddr =>
         /\ in_audio_fifo_mode(d, chan_idx)
         /\ d[chan_idx].initial_dst_addr = fifo_addr(event)

RECURSIVE notify_from(_, _, _)
notify_from(d, chan_idx, event) ==
    IF chan_idx > 3 THEN d
    ELSE notify_from(IF notify_matches(d, chan_idx, event)
                     THEN start_transfer(d, chan_idx) ELSE d,
                     chan_idx + 1, event)

\* Dma::notify
notify(d, event) == notify_from(d, 0, event)

----------------------------------------------------------------------------
(* Bus for Dma: the register file at I/O offsets 0xb0 .. 0xdf.             *)

DmaRegBase == 176
DmaRegs == 176 .. 223

\* a set_addr_byte that keeps all eight bits of the top byte
set_addr_byte_untruncated(chan_idx, addr, i, value) ==
    CASE i \in 0 .. 1 -> Addr(addr[1], SetBits(addr[2], i * 8, i * 8 + 8, value))
      [] i = 2        -> Addr(SetBits(addr[1], 0, 8, value), addr[2])
      [] i = 3        -> Addr(SetBits(addr[1], 8, 16, value), addr[2])

\* the set_addr_byte closure of write_byte
set_addr_byte(chan_idx, addr, i, value) ==
    CASE i \in 0 .. 1           -> Addr(addr[1], SetBits(addr[2], i * 8, i * 8 + 8, value))
      [] i = 2                  -> Addr(SetBits(addr[1], 0, 8, value), addr[2])
      [] i = 3 /\ chan_idx = 0  -> Addr(SetBits(addr[1], 8, 16, Bits(value, 0, 3)), addr[2])
      [] i = 3 /\ chan_idx # 0  -> Addr(SetBits(addr[1], 8, 16, Bits(value, 0, 4)), addr[2])

\* an enable edge that starts the transfer whatever the timing mode
enable_edge_any_timing(d, chan_idx) ==
    LET chan == d[chan_idx]
    IN  start_transfer([d EXCEPT ![chan_idx] =
                          [chan EXCEPT !.src_addr = chan.initial_src_addr,
                                       !.dst_addr = chan.initial_dst_addr,
                                       !.rem_blocks = chan.initial_blocks]],
                       chan_idx)

\* the enable edge of DMAXCNT's high byte: write_byte's inner if
enable_edge(d, chan_idx) ==
    LET chan   == d[chan_idx]
        loaded == [d EXCEPT ![chan_idx] =
                     [chan EXCEPT !.src_addr = chan.initial_src_addr,
                                  !.dst_addr = chan.initial_dst_addr,
                                  !.rem_blocks = chan.initial_blocks]]
    IN  IF chan.timing_mode = 0 THEN start_transfer(loaded, chan_idx) ELSE loaded

\* an enable test that looks at the written bit alone
is_enable_edge_level(chan, value) == Bit(value, 7)

\* the condition of write_byte's inner if: replace() returned false and the
\* channel is now enabled
is_enable_edge(chan, value) == ~chan.enabled /\ Bit(value, 7)

\* <Dma as Bus>::write_byte
write_byte(d, addr, value) ==
    LET chan_idx == (addr - DmaRegBase) \div 12
        chan     == d[chan_idx]
        offset   == (addr - DmaRegBase) % 12
    IN  CASE offset \in 0 .. 3 ->
               [d EXCEPT ![chan_idx].initial_src_addr =
                   set_addr_byte(chan_idx, chan.initial_src_addr, offset % 4, value)]
          [] offset \in 4 .. 7 ->
               [d EXCEPT ![chan_idx].initial_dst_addr =
                   set_addr_byte(chan_idx, chan.initial_dst_addr, offset % 4, value)]
          [] offset = 8 ->
               [d EXCEPT ![chan_idx].initial_blocks = SetBits(chan.initial_blocks, 0, 8, value)]
          [] offset = 9 ->
               [d EXCEPT ![chan_idx].initial_blocks = SetBits(chan.initial_blocks, 8, 32, value)]
          [] offset = 10 ->
               [d EXCEPT ![chan_idx] =
                  [chan EXCEPT
                     !.cached_dmacnt_hi_bits = SetBits(chan.cached_dmacnt_hi_bits, 0, 8, value),
                     !.dst_addr_ctrl = Bits(value, 5, 7),
                     !.src_addr_ctrl = SetBit(chan.src_addr_ctrl, 0, Bit(value, 7))]]
          [] offset = 11 ->
               LET written == [d EXCEPT ![chan_idx] =
                      [chan EXCEPT
                         !.cached_dmacnt_hi_bits = SetBits(chan.cached_dmacnt_hi_bits, 8, 16, value),
                         !.src_addr_ctrl = SetBit(chan.src_addr_ctrl, 1, Bit(value, 0)),
                         !.repeat = Bit(value, 1),
                         !.transfer_word = Bit(value, 2),
                         !.cart_drq = Bit(value, 3),
                         !.timing_mode = Bits(value, 4, 6),
                         !.irq_enabled = Bit(value, 6),
                         !.enabled = Bit(value, 7)]]
               IN  IF is_enable_edge(chan, value)
                   THEN enable_edge(written, chan_idx)
                   ELSE written

\* a read that returns the cached bits without the enabled flag
read_byte_cached_only(d, addr) ==
    LET chan   == d[(addr - DmaRegBase) \div 12]
        offset == (addr - DmaRegBase) % 12
    IN  CASE offset = 10 -> chan.cached_dmacnt_hi_bits % 256
          [] offset = 11 -> Bits(chan.cached_dmacnt_hi_bits, 8, 16)
          [] OTHER -> 0

\* <Dma as Bus>::read_byte
read_byte(d, addr) ==
    LET chan   == d[(addr - DmaRegBase) \div 12]
        offset == (addr - DmaRegBase) % 12
    IN  CASE offset = 10 -> chan.cached_dmacnt_hi_bits % 256
          [] offset = 11 ->
               Bits(SetBit(chan.cached_dmacnt_hi_bits, 15, chan.enabled), 8, 16)
          [] OTHER -> 0

\* bus::write_hword_as_bytes on the DMA registers: low byte, then high byte
write_hword(d, addr, value) ==
    write_byte(write_byte(d, addr, value % 256), addr + 1, value \div 256)

\* bus::write_word_as_bytes on the DMA registers, the word given as its two
\* half-words: the low half-word, then the high one
write_word(d, addr, lo, hi) ==
    write_hword(write_hword(d, addr, lo), addr + 2, hi)

----------------------------------------------------------------------------
(* Work RAM as the bus maps it, and the transfer closure of Dma::step.     *)
(* Memory is kept as half-words, the smallest unit a transfer moves, and   *)
(* only for the first 16 bytes of external and of internal work RAM, for   *)
(* the half-words of internal work RAM at 0x7dfe, 0x7e00 and 0x7ffe and    *)
(* for the half-words of the I/O catch-all buffer at 0x060, 0x204 and      *)
(* 0x3fe; a read elsewhere is 0 and a write elsewhere is dropped.          *)

WindowHwords == 16 \div 2
MemKeys ==
    ({"ewram", "iwram"} \X (0 .. WindowHwords - 1))
      \cup ({"iwram"} \X {16127, 16128, 16383})
      \cup ({"io_todo"} \X {48, 258, 511})

\* Gba::new: vec![0; ..] for both work RAMs
MemNew == [k \in MemKeys |-> 0]

NoKey == <<"none", 0>>

\* the region and the half-word a bus address selects: the match arms of
\* <Bus as bus::Bus>::read_byte and write_byte with their masks
hword_key(addr) ==
    LET region == addr[1] \div 256
        offset == IF region = 2 THEN (addr[1] % 4) * Half + addr[2]
                  ELSE addr[2] % 32768
        key == <<IF region = 2 THEN "ewram" ELSE "iwram", offset \div 2>>
    IN  IF region \in {2, 3} /\ key \in MemKeys THEN key ELSE NoKey

read_hword_aligned(m, addr) ==
    IF hword_key(addr) \in MemKeys THEN m[hword_key(addr)] ELSE 0

write_hword_aligned(m, addr, value) ==
    IF hword_key(addr) \in MemKeys THEN [m EXCEPT ![hword_key(addr)] = value] ELSE m

\* addr & !3
word_align(addr) == <<addr[1], addr[2] - (addr[2] % 4)>>

\* one iteration of the closure's loop body without the address updates:
\* read a unit at src_addr, write it at dst_addr
transfer_unit(m, e, src_addr, dst_addr) ==
    IF e.transfer_word
    THEN LET s  == word_align(src_addr)
             d  == word_align(dst_addr)
             lo == read_hword_aligned(m, s)
             hi == read_hword_aligned(m, WrappingAdd(s, 2))
         IN  write_hword_aligned(write_hword_aligned(m, d, lo), WrappingAdd(d, 2), hi)
    ELSE write_hword_aligned(m, dst_addr, read_hword_aligned(m, src_addr))

\* the closure Dma::step returns, applied to the bus: `left` iterations from
\* src_addr and dst_addr
RECURSIVE do_transfer(_, _, _, _, _)
do_transfer(m, e, left, src_addr, dst_addr) ==
    IF left = 0 THEN m
    ELSE Only({ do_transfer(moved, e, left - 1,
                            update_addr(src_addr, e.src_addr_ctrl, e.stride),
                            update_addr(dst_addr, e.dst_addr_ctrl, e.stride)) :
                  moved \in {transfer_unit(m, e, src_addr, dst_addr)} })

\* do_transfer(&mut bus!(self)) of Gba::step
apply_effect(m, e) ==
    IF e.chan = NoChan THEN m ELSE do_transfer(m, e, e.blocks, e.src_addr, e.dst_addr)

----------------------------------------------------------------------------
(* The interrupt controller as Gba::step uses it.                          *)

\* Irq::new
IrqNew == [enabled |-> {}, requested |-> {}]

\* the Interrupt a channel requests on completion
dma_interrupt(chan_idx) ==
    CASE chan_idx = 0 -> "Dma0"
      [] chan_idx = 1 -> "Dma1"
      [] chan_idx = 2 -> "Dma2"
      [] chan_idx = 3 -> "Dma3"

\* Irq::request, for a set of interrupts
request(q, interrupts) == [q EXCEPT !.requested = @ \cup interrupts]

\* a controller that wakes on any request, enabled or not
pending_any_request(q) == q.requested # {}

\* some source is both enabled and requested
pending(q) == q.enabled \cap q.requested # {}

----------------------------------------------------------------------------
(* The CPU's register file (arm7tdmi/reg.rs): sixteen general registers,   *)
(* CPSR and SPSR, six banks of (SP, LR, SPSR) and the hidden bank of FIQ's *)
(* r8-r12.                                                                 *)

OperationModes ==
    {"User", "FastInterrupt", "Interrupt", "Supervisor", "Abort",
     "UndefinedInstr", "System"}

SP_INDEX == 13
LR_INDEX == 14

\* StatusRegister::default
StatusRegisterDefault ==
    [signed |-> FALSE, zero |-> FALSE, carry |-> FALSE, overflow |-> FALSE,
     irq_disabled |-> FALSE, fiq_disabled |-> FALSE, state |-> "Arm",
     mode |-> "Supervisor"]

\* Registers::default
RegistersDefault ==
    [r |-> [i \in 0 .. 15 |-> 0],
     cpsr |-> StatusRegisterDefault,
     spsr |-> StatusRegisterDefault,
     banks |-> [b \in 0 .. 5 |->
                [sp |-> 0, lr |-> 0, spsr |-> StatusRegisterDefault]],
     fiq_r8_12_bank |-> [i \in 0 .. 4 |-> 0]]

\* OperationMode::bank_index
bank_index(mode) ==
    CASE mode \in {"User", "System"} -> 0
      [] mode = "FastInterrupt" -> 1
      [] mode = "Interrupt" -> 2
      [] mode = "Supervisor" -> 3
      [] mode = "Abort" -> 4
      [] mode = "UndefinedInstr" -> 5

\* a swap of r8-r12 made on every change of bank
fiq_swap_always(old_mode, mode) == TRUE

\* a swap of r8-r12 made on entering FIQ only
fiq_swap_on_entry(old_mode, mode) == mode = "FastInterrupt"

\* the condition of change_bank's swap of r8-r12 with the hidden bank
fiq_swap(old_mode, mode) == old_mode = "FastInterrupt" \/ mode = "FastInterrupt"

\* fiq_r8_12_bank.swap_with_slice(&mut r[8..=12])
swap_with_slice(g) ==
    [g EXCEPT !.r = [i \in 0 .. 15 |->
                       IF i \in 8 .. 12 THEN g.fiq_r8_12_bank[i - 8] ELSE g.r[i]],
              !.fiq_r8_12_bank = [i \in 0 .. 4 |-> g.r[8 + i]]]

\* a banking that loads the new bank before it saves to the old one
rebank_load_first(g, old_bank_index, new_bank_index, mode) ==
    LET swapped == IF fiq_swap(g.cpsr.mode, mode) THEN swap_with_slice(g) ELSE g
        loaded == [swapped EXCEPT
                     !.r[SP_INDEX] = swapped.banks[new_bank_index].sp,
                     !.r[LR_INDEX] = swapped.banks[new_bank_index].lr,
                     !.spsr = swapped.banks[new_bank_index].spsr]
    IN  [loaded EXCEPT
           !.banks[old_bank_index] =
               [sp |-> loaded.r[SP_INDEX], lr |-> loaded.r[LR_INDEX],
                spsr |-> loaded.spsr]]

\* the banking of change_bank: save to the old bank, load from the new one
rebank(g, old_bank_index, new_bank_index, mode) ==
    LET swapped == IF fiq_swap(g.cpsr.mode, mode) THEN swap_with_slice(g) ELSE g
        saved == [swapped EXCEPT
                    !.banks[old_bank_index] =
                        [sp |-> swapped.r[SP_INDEX], lr |-> swapped.r[LR_INDEX],
                         spsr |-> swapped.spsr]]
    IN  [saved EXCEPT !.r[SP_INDEX] = saved.banks[new_bank_index].sp,
                      !.r[LR_INDEX] = saved.banks[new_bank_index].lr,
                      !.spsr = saved.banks[new_bank_index].spsr]

\* a change_bank without the early return
change_bank_unconditional(g, mode) ==
    rebank(g, bank_index(g.cpsr.mode), bank_index(mode), mode)

\* Registers::change_bank
change_bank(g, mode) ==
    IF bank_index(g.cpsr.mode) = bank_index(mode)
    THEN g
    ELSE rebank(g, bank_index(g.cpsr.mode), bank_index(mode), mode)

\* Registers::change_mode
change_mode(g, mode) == [change_bank(g, mode) EXCEPT !.cpsr.mode = mode]

\* OperationMode::bits, OperationState::bits: the discriminants
mode_bits(mode) ==
    CASE mode = "User" -> 16
      [] mode = "FastInterrupt" -> 17
      [] mode = "Interrupt" -> 18
      [] mode = "Supervisor" -> 19
      [] mode = "Abort" -> 23
      [] mode = "UndefinedInstr" -> 27
      [] mode = "System" -> 31

state_bits(state) == IF state = "Thumb" THEN 32 ELSE 0

\* a decoding that reads bits 0..6
from_bits_six(bits) ==
    LET repr == Bits(bits[2], 0, 6)
    IN  IF \E mode \in OperationModes : mode_bits(mode) = repr
        THEN CHOOSE mode \in OperationModes : mode_bits(mode) = repr
        ELSE "None"

\* OperationMode::from_bits: from_repr of bits 0..5, "None" without a match
from_bits(bits) ==
    LET repr == Bits(bits[2], 0, 5)
    IN  IF \E mode \in OperationModes : mode_bits(mode) = repr
        THEN CHOOSE mode \in OperationModes : mode_bits(mode) = repr
        ELSE "None"

\* StatusRegister::bits, as <<high half, low half>>
status_bits(psr) ==
    <<SetBit(SetBit(SetBit(SetBit(0, 31 - 16, psr.signed), 30 - 16, psr.zero),
                    29 - 16, psr.carry), 28 - 16, psr.overflow),
      SetBit(SetBit(0, 7, psr.irq_disabled), 6, psr.fiq_disabled)
        + state_bits(psr.state) + mode_bits(psr.mode)>>

\* StatusRegister::set_flags_from_bits
set_flags_from_bits(psr, bits) ==
    [psr EXCEPT !.signed = Bit(bits[1], 31 - 16), !.zero = Bit(bits[1], 30 - 16),
                !.carry = Bit(bits[1], 29 - 16), !.overflow = Bit(bits[1], 28 - 16)]

\* a control write that assigns the state bit as well
set_control_and_state_from_bits(psr, bits) ==
    LET mode == from_bits(bits)
        masked == [psr EXCEPT !.irq_disabled = Bit(bits[2], 7),
                              !.fiq_disabled = Bit(bits[2], 6),
                              !.state = IF Bit(bits[2], 5) THEN "Thumb" ELSE "Arm"]
    IN  IF mode = "None"
        THEN [psr |-> masked, result |-> "Err"]
        ELSE [psr |-> [masked EXCEPT !.mode = mode], result |-> mode]

\* StatusRegister::set_control_from_bits: the register afterwards and the
\* Result returned (the mode, or "Err" with the mode left as it was)
set_control_from_bits(psr, bits) ==
    LET mode == from_bits(bits)
        masked == [psr EXCEPT !.irq_disabled = Bit(bits[2], 7),
                              !.fiq_disabled = Bit(bits[2], 6)]
    IN  IF mode = "None"
        THEN [psr |-> masked, result |-> "Err"]
        ELSE [psr |-> [masked EXCEPT !.mode = mode], result |-> mode]

----------------------------------------------------------------------------
(* The DMA controller driven through its public operations.                *)

MaxSteps == 3
MaxWrites == 3

\* The register writes offered to every channel.  A word write is given as
\* <<offset, low half-word, high half-word>>, a byte write as <<offset, value>>.
ByteWrites ==
    { <<11, 128>> }  \* DMAXCNT_H high byte: enable, immediate, half-word

WordWrites ==
    { <<8, 5, 0>>,                                \* 5 units, disabled
      <<8, 5, 32768 + 16384 + 1024 + 512 + 96>>,  \* 5 units, enable, immediate, irq, word, repeat, dst reload
      <<8, 65280, 32768 + 4096>> }                \* 0xff00 units, enable, vblank

StepCycles == {3}
DmaEvents == {"VBlank"}

\* `last` names the last operation that changed something, the channel it
\* addressed or serviced and its argument (a register offset, an event or a
\* cycle budget)
NoOp == [op |-> "new", chan |-> NoChan, arg |-> 0]

Init ==
    /\ dma = DmaNew
    /\ effect = NoEffect
    /\ irqReq = {}
    /\ haltcnt = "Running"
    /\ cpuRan = FALSE
    /\ last = NoOp
    /\ nsteps = 0
    /\ nwrites = 0
    /\ mem = MemNew
    /\ irq = IrqNew
    /\ reg = RegistersDefault
    /\ entry = RegistersDefault
    /\ lastLeft = RegistersDefault.banks

\* the part every operation on the DMA registers shares
Wrote(d, op) ==
    /\ nwrites < MaxWrites
    /\ dma' = d
    /\ effect' = NoEffect
    /\ irqReq' = {}
    /\ last' = op
    /\ nwrites' = nwrites + 1
    /\ UNCHANGED <<haltcnt, cpuRan, nsteps, machine>>

DmaWriteByte(chan_idx, offset, value) ==
    Wrote(write_byte(dma, DmaRegBase + 12 * chan_idx + offset, value),
          [op |-> "write_byte", chan |-> chan_idx, arg |-> offset, value |-> value])

DmaWriteHword(chan_idx, value) ==
    Wrote(write_hword(dma, DmaRegBase + 12 * chan_idx + 10, value),
          [op |-> "write_hword", chan |-> chan_idx, arg |-> 10])

DmaWriteWord(chan_idx, offset, lo, hi) ==
    Wrote(write_word(dma, DmaRegBase + 12 * chan_idx + offset, lo, hi),
          [op |-> "write_word", chan |-> chan_idx, arg |-> offset])

DmaNotify(event) ==
    /\ dma' = notify(dma, event)
    /\ effect' = NoEffect
    /\ irqReq' = {}
    /\ last' = [op |-> "notify", chan |-> NoChan, arg |-> event]
    /\ UNCHANGED <<haltcnt, cpuRan, nsteps, nwrites, machine>>

\* (a step that finds no channel to service returns None, changes nothing and
\* is left out)
DmaStep(cycles) ==
    /\ nsteps < MaxSteps
    /\ serviced(dma) # NoChan
    /\ LET r == step(dma, cycles)
       IN  /\ dma' = r.dma
           /\ effect' = r.effect
           /\ irqReq' = r.irq
    /\ last' = [op |-> "step", chan |-> serviced(dma), arg |-> cycles]
    /\ nsteps' = nsteps + 1
    /\ UNCHANGED <<haltcnt, cpuRan, nwrites, machine>>

NextDma ==
    \/ \E c \in Channels, w \in ByteWrites : DmaWriteByte(c, w[1], w[2])
    \/ \E c \in Channels, w \in WordWrites : DmaWriteWord(c, w[1], w[2], w[3])
    \/ \E e \in DmaEvents : DmaNotify(e)
    \/ \E n \in StepCycles : DmaStep(n)

SpecDma == Init /\ [][NextDma]_vars

----------------------------------------------------------------------------
(* An HBlank-timed transfer on channel 0: count 8, enabled, with every     *)
(* choice of width, repeat, IRQ and destination control; HBlank and VBlank *)
(* notifications and steps keep coming.                                    *)

Dma0Regs == DmaRegBase

hblank_setup(dst_ctrl, flags) ==
    write_word(DmaNew, Dma0Regs + 8, 8, 32768 + 8192 + flags + 32 * dst_ctrl)

InitHblank ==
    /\ \E dst_ctrl \in 0 .. 3, word \in {0, 1024}, rep \in {0, 512},
          irq_on_complete \in {0, 16384} :
         dma = hblank_setup(dst_ctrl, word + rep + irq_on_complete)
    /\ effect = NoEffect
    /\ irqReq = {}
    /\ haltcnt = "Running"
    /\ cpuRan = FALSE
    /\ last = NoOp
    /\ nsteps = 0
    /\ nwrites = 0
    /\ mem = MemNew
    /\ irq = IrqNew
    /\ reg = RegistersDefault
    /\ entry = RegistersDefault
    /\ lastLeft = RegistersDefault.banks

NextHblank ==
    \/ \E e \in {"HBlank", "VBlank"} : DmaNotify(e)
    \/ \E n \in StepCycles : DmaStep(n)

SpecHblank ==
    /\ InitHblank
    /\ [][NextHblank]_vars
    /\ WF_vars(DmaNotify("HBlank"))
    /\ WF_vars(\E n \in StepCycles : DmaStep(n))

----------------------------------------------------------------------------
(* The DMA registers byte by byte: writes to address, count and control    *)
(* bytes, reads of every kind of byte, and steps.                          *)

\* <<offset, value>>
RegWrites ==
    { <<0, 255>>, <<3, 255>>,                 \* DMAXSAD
      <<7, 255>>,                             \* DMAXDAD
      <<8, 1>>,                               \* DMAXCNT_L
      <<10, 255>>,                            \* DMAXCNT_H low byte
      <<11, 128>>,                            \* enable, immediate
      <<11, 255>>,                            \* enable, special, every flag
      <<11, 127>> }                           \* disabled, special, every flag

RegReads == {3, 8, 10, 11}

MaxRegWrites == 2

\* <Dma as Bus>::read_byte leaves the controller as it is; the byte it
\* returns is kept in `last`
DmaReadByte(chan_idx, offset) ==
    /\ last' = [op |-> "read_byte", chan |-> chan_idx, arg |-> offset,
                value |-> read_byte(dma, DmaRegBase + 12 * chan_idx + offset)]
    /\ effect' = NoEffect
    /\ irqReq' = {}
    /\ UNCHANGED <<dma, haltcnt, cpuRan, nsteps, nwrites, machine>>

NextRegs ==
    \/ \E c \in Channels, w \in RegWrites :
          nwrites < MaxRegWrites /\ DmaWriteByte(c, w[1], w[2])
    \/ \E c \in Channels, offset \in RegReads : DmaReadByte(c, offset)
    \/ \E n \in StepCycles : DmaStep(n)

SpecRegs == Init /\ [][NextRegs]_vars

----------------------------------------------------------------------------
(* The DMA controller driven with the audio FIFOs' addresses, the special  *)
(* timing mode, 16-bit control writes and all four events.                 *)

FifoWordWrites ==
    { <<4, 160, 1024>>,            \* DMAXDAD = 0x0400_00a0 (FIFO A)
      <<4, 164, 1024>>,            \* DMAXDAD = 0x0400_00a4 (FIFO B)
      <<8, 5, 32768 + 12288>> }    \* 5 units, enable, special, half-word, dst increment

ControlWrites ==
    { 32768 + 8192,                \* enable, hblank
      32768 + 4096 + 1024,         \* enable, vblank, word
      32768 + 12288 + 96,          \* enable, special, dst reload
      12288 + 512 }                \* disabled, special, repeat

\* the register writes of one run
MaxFifoWrites == 2

NextFifo ==
    \/ \E c \in Channels, w \in FifoWordWrites :
          nwrites < MaxFifoWrites /\ DmaWriteWord(c, w[1], w[2], w[3])
    \/ \E c \in Channels, v \in ControlWrites :
          nwrites < MaxFifoWrites /\ DmaWriteHword(c, v)
    \/ \E e \in Events : DmaNotify(e)
    \/ \E n \in StepCycles : DmaStep(n)

SpecFifo == Init /\ [][NextFifo]_vars

----------------------------------------------------------------------------
(* The host step, Gba::step.  The CPU's instruction is an input: a         *)
(* no-operation, a store to a DMA register or a store to HALTCNT.  Video's *)
(* notification of the step and the interrupt controller's wake-up are     *)
(* inputs as well.  The DMA effect's own bus accesses go to memory that is *)
(* not part of this state (the destination registers stay 0).              *)

\* HaltControl::read_byte
haltcnt_read == 0

\* a halt control that decodes bit 0
haltcnt_write_low_bit(value) == IF Bit(value, 0) THEN "Stopped" ELSE "Halted"

\* HaltControl::write_byte
haltcnt_write(value) == IF Bit(value, 7) THEN "Stopped" ELSE "Halted"

\* a CPU that steps whatever the DMA controller is doing
cpu_runs_ignoring_dma(d, h) == h = "Running"

\* the condition of Gba::step's first if
cpu_runs(d, h) == h = "Running" /\ ~transfer_in_progress(d)

Nop == [kind |-> "nop"]

\* cpu.step: the instruction's store through <Gba as Bus>::write_byte
cpu_step(d, h, instr) ==
    CASE instr.kind = "dma_byte" ->
           [dma |-> write_byte(d, DmaRegBase + 12 * instr.chan + instr.offset,
                               instr.value),
            haltcnt |-> h]
      [] instr.kind = "dma_word" ->
           [dma |-> write_word(d, DmaRegBase + 12 * instr.chan + instr.offset,
                               instr.lo, instr.hi),
            haltcnt |-> h]
      [] instr.kind = "halt" ->
           [dma |-> d, haltcnt |-> haltcnt_write(instr.value)]
      [] OTHER -> [dma |-> d, haltcnt |-> h]

\* video.step, as far as the DMA controller sees it
video_step(d, vevent) == IF vevent = "None" THEN d ELSE notify(d, vevent)

\* irq.step: an enabled pending interrupt returns the halt state to Running
irq_step(h, wake) == IF wake THEN "Running" ELSE h

\* peripherals that are stepped in every halt state
peripherals_run_always(h) == TRUE

\* the condition of Gba::step's second if
peripherals_run(h) == h # "Stopped"

\* Gba::step
gba_step(d, h, instr, vevent, wake) ==
    LET runs == cpu_runs(d, h)
        \* video.step, timers.step and dma.step, unless Stopped
        peripherals(cpu) ==
            IF peripherals_run(cpu.haltcnt)
            THEN step(Only({video_step(cpu.dma, vevent)}), 3)
            ELSE [dma |-> cpu.dma, effect |-> NoEffect, irq |-> {}]
    IN  Only({ Only({ [dma |-> r.dma, effect |-> r.effect, irq |-> r.irq,
                       haltcnt |-> irq_step(cpu.haltcnt, wake),
                       cpuRan |-> runs] :
                      r \in {peripherals(cpu)} }) :
               cpu \in {IF runs THEN cpu_step(d, h, instr)
                         ELSE [dma |-> d, haltcnt |-> h]} })

GbaByteWrites == { <<11, 128>> }          \* enable, immediate, half-word
GbaWordWrites == { <<8, 5, 32768 + 4096>>,  \* 5 units, enable, vblank
                   <<8, 5, 0>> }            \* 5 units, disabled

DmaStores ==
    { [kind |-> "dma_byte", chan |-> c, offset |-> w[1], value |-> w[2]] :
        c \in Channels, w \in GbaByteWrites }
    \cup
    { [kind |-> "dma_word", chan |-> c, offset |-> w[1], lo |-> w[2], hi |-> w[3]] :
        c \in Channels, w \in GbaWordWrites }

HaltStores == { [kind |-> "halt", value |-> v] : v \in {0, 128} }

Instrs == {Nop} \cup DmaStores \cup HaltStores

VideoEvents == {"None", "VBlank", "HBlank"}

GbaStep(instr, vevent, wake) ==
    /\ nsteps < MaxSteps
    /\ instr \in DmaStores => nwrites < MaxWrites
    /\ \E r \in {gba_step(dma, haltcnt, instr, vevent, wake)} :
           /\ dma' = r.dma
           /\ effect' = r.effect
           /\ irqReq' = r.irq
           /\ haltcnt' = r.haltcnt
           /\ cpuRan' = r.cpuRan
           /\ last' = [op |-> "gba_step", chan |-> r.effect.chan,
                       arg |-> [instr |-> IF r.cpuRan THEN instr ELSE Nop,
                                vevent |-> vevent]]
           /\ nwrites' = IF r.cpuRan /\ instr \in DmaStores
                         THEN nwrites + 1 ELSE nwrites
    /\ nsteps' = nsteps + 1
    /\ UNCHANGED machine

NextGba ==
    \E instr \in Instrs, vevent \in VideoEvents, wake \in BOOLEAN :
        GbaStep(instr, vevent, wake)

SpecGba == Init /\ [][NextGba]_vars

----------------------------------------------------------------------------
(* The host step with work RAM and the interrupt controller: the transfer  *)
(* effect is applied to memory, the requests of the step are latched and   *)
(* the wake-up that ends the step is the controller's own evaluation.      *)

\* the CPU's store to the interrupt controller's registers: IE is replaced,
\* a write to IF acknowledges
irq_store(q, instr) ==
    CASE instr.kind = "irq_enable" -> [q EXCEPT !.enabled = instr.sources]
      [] instr.kind = "irq_ack" -> [q EXCEPT !.requested = @ \ instr.sources]
      [] OTHER -> q

\* an interrupt evaluation that comes before the DMA sub-step
seen_by_irq_step_before_dma(q, video_reqs, dma_reqs) == request(q, video_reqs)

\* what irq.step finds requested at the end of a step whose peripherals were
\* stepped: video.step, timers.step and dma.step have made their requests
seen_by_irq_step(q, video_reqs, dma_reqs) == request(q, video_reqs \cup dma_reqs)

\* Gba::step with memory and the interrupt controller.  keypad_reqs and
\* video_reqs are the interrupts keypad.step and video.step/timers.step ask
\* for in this step.
host_step(d, h, m, q, instr, vevent, keypad_reqs, video_reqs) ==
    LET runs   == cpu_runs(d, h)
        keyed  == request(q, keypad_reqs)
        stored == IF runs THEN irq_store(keyed, instr) ELSE keyed
    IN  Only({ LET awake == peripherals_run(r.haltcnt)
                   seen  == IF awake
                            THEN seen_by_irq_step(stored, video_reqs,
                                                  {dma_interrupt(c) : c \in r.irq})
                            ELSE stored
               IN  [dma |-> r.dma, effect |-> r.effect, irqReq |-> r.irq,
                    haltcnt |-> irq_step(r.haltcnt, pending(seen)),
                    cpuRan |-> r.cpuRan,
                    mem |-> apply_effect(m, r.effect), irq |-> seen,
                    awake |-> awake] :
               \* the sub-steps up to dma.step; irq.step follows above
               r \in {gba_step(d, h, instr, vevent, FALSE)} })

HostDmaStores ==
    { [kind |-> "dma_word", chan |-> 0, offset |-> 8, lo |-> 2,
       hi |-> 32768 + 16384 + 4096] }      \* channel 0: 2 units, enable, irq, vblank

IrqStores ==
    { [kind |-> "irq_enable", sources |-> {"Dma0"}],
      [kind |-> "irq_enable", sources |-> {"Keypad"}],
      [kind |-> "irq_ack", sources |-> {"Dma0", "Dma3", "Keypad", "VBlank"}] }

HostInstrs == {Nop} \cup HostDmaStores \cup HaltStores \cup IrqStores

HostVideoEvents == {"None", "VBlank"}

HostStep(instr, vevent, keypad_req, video_req) ==
    /\ nsteps < MaxSteps
    /\ instr \in HostDmaStores => nwrites < MaxWrites
    /\ \E r \in {host_step(dma, haltcnt, mem, irq, instr, vevent,
                           IF keypad_req THEN {"Keypad"} ELSE {},
                           IF video_req /\ vevent # "None" THEN {vevent} ELSE {})} :
           /\ dma' = r.dma
           /\ effect' = r.effect
           /\ irqReq' = r.irqReq
           /\ haltcnt' = r.haltcnt
           /\ cpuRan' = r.cpuRan
           /\ mem' = r.mem
           /\ irq' = r.irq
           /\ last' = [op |-> "host_step", chan |-> r.effect.chan,
                       arg |-> [instr |-> IF r.cpuRan THEN instr ELSE Nop,
                                vevent |-> IF r.awake THEN vevent ELSE "None",
                                keypad |-> keypad_req]]
           /\ nwrites' = IF r.cpuRan /\ instr \in HostDmaStores
                         THEN nwrites + 1 ELSE nwrites
    /\ nsteps' = nsteps + 1
    /\ UNCHANGED <<reg, entry, lastLeft>>

NextHost ==
    \E instr \in HostInstrs, vevent \in HostVideoEvents,
       keypad_req \in BOOLEAN, video_req \in BOOLEAN :
        HostStep(instr, vevent, keypad_req, video_req)

SpecHost == Init /\ [][NextHost]_vars

----------------------------------------------------------------------------
(* A memory-to-memory transfer on channel 3: the registers are written as  *)
(* the program would write them (DMA3SAD = 0x0200_0000, DMA3DAD =          *)
(* 0x0300_0000, count 4, control word, immediate, enabled, with or         *)
(* without IRQ on completion), external work RAM holds 16 bytes of data,   *)
(* and the host loop calls Gba::step again and again.                      *)

Dma3Regs == DmaRegBase + 12 * 3

drain_setup(irq_on_complete) ==
    write_word(write_word(write_word(DmaNew, Dma3Regs, 0, 512),
                          Dma3Regs + 4, 0, 768),
               Dma3Regs + 8, 4,
               32768 + 1024 + (IF irq_on_complete THEN 16384 ELSE 0))

InitDrain ==
    /\ \E irq_on_complete \in BOOLEAN : dma = drain_setup(irq_on_complete)
    \* four words of data, each word's high half 2 above its low half
    /\ \E data \in [0 .. 3 -> {1, 2}] :
         mem = [k \in MemKeys |->
                  IF k[1] = "ewram" THEN data[k[2] \div 2] + 2 * (k[2] % 2) ELSE 0]
    /\ irq = IrqNew
    /\ effect = NoEffect
    /\ irqReq = {}
    /\ haltcnt = "Running"
    /\ cpuRan = FALSE
    /\ last = NoOp
    /\ nsteps = 0
    /\ nwrites = 0
    /\ reg = RegistersDefault
    /\ entry = RegistersDefault
    /\ lastLeft = RegistersDefault.banks

SpecDrain == InitDrain /\ [][NextHost]_vars /\ WF_vars(NextHost)

----------------------------------------------------------------------------
(* Halting and waking: the host loop calls Gba::step for ever; the program *)
(* enables and acknowledges interrupts and writes HALTCNT, the keypad may  *)
(* request its interrupt in any step, and video, as long as it is stepped, *)
(* reaches VBlank again and again.  No DMA register is written.            *)

WakeIrqStores ==
    { [kind |-> "irq_enable", sources |-> {"VBlank"}],
      [kind |-> "irq_enable", sources |-> {"Keypad"}],
      [kind |-> "irq_enable", sources |-> {}],
      [kind |-> "irq_ack", sources |-> {"VBlank", "Keypad"}] }

WakeInstrs == {Nop} \cup HaltStores \cup WakeIrqStores

WakeStep(instr, vevent, keypad_req, video_req) ==
    /\ \E r \in {host_step(dma, haltcnt, mem, irq, instr, vevent,
                           IF keypad_req THEN {"Keypad"} ELSE {},
                           IF video_req /\ vevent # "None" THEN {vevent} ELSE {})} :
           /\ dma' = r.dma
           /\ effect' = r.effect
           /\ irqReq' = r.irqReq
           /\ haltcnt' = r.haltcnt
           /\ cpuRan' = r.cpuRan
           /\ mem' = r.mem
           /\ irq' = r.irq
           /\ last' = [op |-> "host_step", chan |-> r.effect.chan,
                       arg |-> [instr |-> IF r.cpuRan THEN instr ELSE Nop,
                                vevent |-> IF r.awake THEN vevent ELSE "None",
                                keypad |-> keypad_req]]
    /\ UNCHANGED <<nsteps, nwrites, reg, entry, lastLeft>>

\* a step in which video reaches VBlank and requests its interrupt
VBlankStep == \E instr \in WakeInstrs, keypad_req \in BOOLEAN :
                  WakeStep(instr, "VBlank", keypad_req, TRUE)

NextWake ==
    \E instr \in WakeInstrs, vevent \in HostVideoEvents,
       keypad_req \in BOOLEAN, video_req \in BOOLEAN :
        WakeStep(instr, vevent, keypad_req, video_req)

SpecWake == Init /\ [][NextWake]_vars /\ WF_vars(VBlankStep)

----------------------------------------------------------------------------
(* The halt control register at 0x0400_0301 on its own: byte writes of     *)
(* every value, byte reads, and the interrupt controller's wake-up, from   *)
(* every halt state.                                                       *)

HaltWriteByte(value) ==
    /\ haltcnt' = haltcnt_write(value)
    /\ last' = [op |-> "halt_write", chan |-> NoChan, arg |-> haltcnt,
                value |-> value]
    /\ UNCHANGED <<dma, effect, irqReq, cpuRan, nsteps, nwrites, machine>>

HaltReadByte ==
    /\ last' = [op |-> "halt_read", chan |-> NoChan, arg |-> haltcnt,
                value |-> haltcnt_read]
    /\ UNCHANGED <<dma, effect, irqReq, haltcnt, cpuRan, nsteps, nwrites, machine>>

HaltIrqStep(wake) ==
    /\ haltcnt' = irq_step(haltcnt, wake)
    /\ last' = [op |-> "irq_step", chan |-> NoChan, arg |-> haltcnt,
                value |-> IF wake THEN 1 ELSE 0]
    /\ UNCHANGED <<dma, effect, irqReq, cpuRan, nsteps, nwrites, machine>>

NextHalt ==
    \/ \E value \in 0 .. 255 : HaltWriteByte(value)
    \/ HaltReadByte
    \/ \E wake \in BOOLEAN : HaltIrqStep(wake)

SpecHalt == Init /\ [][NextHalt]_vars

----------------------------------------------------------------------------
(* The register file driven through change_mode, writes to r8, r12, SP and *)
(* LR and writes to the SPSR's zero flag, from any mode but FIQ with the   *)
(* registers as constructed or filled by the program.                      *)

\* the mode and register operations of one run
MaxRegOps == 4

WrittenRegs == {8, 12, SP_INDEX, LR_INDEX}

InitMode ==
    /\ \E mode \in OperationModes \ {"FastInterrupt"}, fill \in {0, 3} :
         reg = [change_mode(RegistersDefault, mode) EXCEPT
                  !.r = [i \in 0 .. 15 |-> fill]]
    /\ entry = RegistersDefault
    /\ lastLeft = RegistersDefault.banks
    /\ dma = DmaNew
    /\ effect = NoEffect
    /\ irqReq = {}
    /\ haltcnt = "Running"
    /\ cpuRan = FALSE
    /\ last = NoOp
    /\ nsteps = 0
    /\ nwrites = 0
    /\ mem = MemNew
    /\ irq = IrqNew

RegOp ==
    /\ nsteps < MaxRegOps
    /\ nsteps' = nsteps + 1
    /\ UNCHANGED <<dma, effect, irqReq, haltcnt, cpuRan, nwrites, mem, irq>>

ChangeMode(mode) ==
    /\ RegOp
    /\ reg' = change_mode(reg, mode)
    /\ entry' = IF mode = "FastInterrupt" /\ reg.cpsr.mode # "FastInterrupt"
                THEN reg ELSE entry
    /\ lastLeft' = IF bank_index(reg.cpsr.mode) = bank_index(mode)
                   THEN lastLeft
                   ELSE [lastLeft EXCEPT ![bank_index(reg.cpsr.mode)] =
                           [sp |-> reg.r[SP_INDEX], lr |-> reg.r[LR_INDEX],
                            spsr |-> reg.spsr]]
    /\ last' = [op |-> "change_mode", chan |-> NoChan, arg |-> mode,
                from |-> reg.cpsr.mode]

WriteReg(i, value) ==
    /\ RegOp
    /\ reg' = [reg EXCEPT !.r[i] = value]
    /\ last' = [op |-> "write_reg", chan |-> NoChan, arg |-> i]
    /\ UNCHANGED <<entry, lastLeft>>

WriteSpsrZero ==
    /\ RegOp
    /\ reg' = [reg EXCEPT !.spsr.zero = ~@]
    /\ last' = [op |-> "write_spsr", chan |-> NoChan, arg |-> 0]
    /\ UNCHANGED <<entry, lastLeft>>

NextMode ==
    \/ \E mode \in OperationModes : ChangeMode(mode)
    \/ \E i \in WrittenRegs, value \in {1} : WriteReg(i, value)
    \/ WriteSpsrZero

SpecMode == InitMode /\ [][NextMode]_vars

----------------------------------------------------------------------------
(* The CPSR written and read as a 32-bit word, <<high half, low half>>:    *)
(* control writes, and full writes (flags, then control), of words with    *)
(* every mode code, in either instruction state.                           *)

\* every five-bit code with all the bits above it clear and with all of
\* them set, and three valid codes under single control bits
PsrWords ==
    { <<0, code>> : code \in 0 .. 31 }
      \cup { <<65535, 65280 + 224 + code>> : code \in 0 .. 31 }
      \cup { <<40960, 32 + 16>>, <<4095, 128 + 17>>, <<0, 64 + 192 * 256 + 18>> }

InitPsr ==
    /\ \E state \in {"Arm", "Thumb"} :
         reg = [RegistersDefault EXCEPT !.cpsr.state = state]
    /\ entry = RegistersDefault
    /\ lastLeft = RegistersDefault.banks
    /\ dma = DmaNew
    /\ effect = NoEffect
    /\ irqReq = {}
    /\ haltcnt = "Running"
    /\ cpuRan = FALSE
    /\ last = NoOp
    /\ nsteps = 0
    /\ nwrites = 0
    /\ mem = MemNew
    /\ irq = IrqNew

\* set_control_from_bits(bits) on the CPSR
SetControl(bits) ==
    /\ \E w \in {set_control_from_bits(reg.cpsr, bits)} :
          /\ reg' = [reg EXCEPT !.cpsr = w.psr]
          /\ last' = [op |-> "set_control", chan |-> NoChan, arg |-> bits,
                      value |-> w.result]
    /\ UNCHANGED <<dma, effect, irqReq, haltcnt, cpuRan, nsteps, nwrites, mem, irq,
                   entry, lastLeft>>

\* the full write: set_flags_from_bits(bits), then set_control_from_bits(bits)
WriteCpsr(bits) ==
    /\ \E w \in {set_control_from_bits(set_flags_from_bits(reg.cpsr, bits), bits)} :
          /\ reg' = [reg EXCEPT !.cpsr = w.psr]
          /\ last' = [op |-> "write_cpsr", chan |-> NoChan, arg |-> bits,
                      value |-> w.result]
    /\ UNCHANGED <<dma, effect, irqReq, haltcnt, cpuRan, nsteps, nwrites, mem, irq,
                   entry, lastLeft>>

SpecPsr ==
    InitPsr /\ [][\E bits \in PsrWords : SetControl(bits) \/ WriteCpsr(bits)]_vars

----------------------------------------------------------------------------
(* The bus router, <Bus as bus::Bus>: a byte access is dispatched on its    *)
(* address to a collaborator at a masked offset.  Work RAM, the I/O        *)
(* catch-all buffer, the DMA registers and the halt control are part of    *)
(* this state; what the other collaborators (video and its memories,       *)
(* timers, keypad, the interrupt controller, BIOS, cartridge) do with an   *)
(* access is not, and the router's part is the access it hands them.       *)

\* a register match whose IRQ block runs from 0x200 to 0x20b without a gap
io_target_irq_contiguous(offset) ==
    CASE offset \in 0 .. 86 -> "video"
      [] offset \in 176 .. 223 -> "dma"
      [] offset \in 256 .. 271 -> "timers"
      [] offset \in 304 .. 307 -> "keypad"
      [] offset \in 512 .. 523 -> "irq"
      [] offset = 769 -> "haltcnt"
      [] offset \in 0 .. 2048 -> "io_todo"
      [] OTHER -> "none"

\* the arm of the I/O register match an offset selects
io_target(offset) ==
    CASE offset \in 0 .. 86 -> "video"
      [] offset \in 176 .. 223 -> "dma"
      [] offset \in 256 .. 271 -> "timers"
      [] offset \in 304 .. 307 -> "keypad"
      [] offset \in (512 .. 515) \cup (520 .. 523) -> "irq"
      [] offset = 769 -> "haltcnt"
      [] offset \in 0 .. 2048 -> "io_todo"
      [] OTHER -> "none"

\* a router that masks external work RAM to 19 bits and internal to 16
read_target_wide_mirror(addr) ==
    LET hi == addr[1]
        lo == addr[2]
    IN  CASE hi = 0 /\ lo <= 16383 -> <<"bios", lo>>
          [] hi \in 512 .. 767 -> <<"ewram", (hi % 8) * Half + lo>>
          [] hi \in 768 .. 1023 -> <<"iwram", lo>>
          [] hi = 1024 /\ lo <= 1022 -> <<io_target(lo % 1024), lo % 1024>>
          [] hi \in 1280 .. 1535 -> <<"palette_ram", lo % 1024>>
          [] hi \in 1536 .. 1791 -> <<"vram", (hi % 2) * Half + lo>>
          [] hi \in 1792 .. 2047 -> <<"oam", lo % 1024>>
          [] hi \in 2048 .. 3583 -> <<"cart", (hi % 512) * Half + lo>>
          [] hi = 3584 -> <<"sram", lo>>
          [] OTHER -> <<"unused", 0>>

\* the arm of read_byte's match an address selects and the masked offset
read_target(addr) ==
    LET hi == addr[1]
        lo == addr[2]
    IN  CASE hi = 0 /\ lo <= 16383 -> <<"bios", lo>>
          [] hi \in 512 .. 767 -> <<"ewram", (hi % 4) * Half + lo>>
          [] hi \in 768 .. 1023 -> <<"iwram", lo % 32768>>
          [] hi = 1024 /\ lo <= 1022 -> <<io_target(lo % 1024), lo % 1024>>
          [] hi \in 1280 .. 1535 -> <<"palette_ram", lo % 1024>>
          [] hi \in 1536 .. 1791 -> <<"vram", (hi % 2) * Half + lo>>
          [] hi \in 1792 .. 2047 -> <<"oam", lo % 1024>>
          [] hi \in 2048 .. 3583 -> <<"cart", (hi % 512) * Half + lo>>
          [] hi = 3584 -> <<"sram", lo>>
          [] OTHER -> <<"unused", 0>>

\* the arm of write_byte's match: read_byte's without BIOS, OAM and ROM
write_target(addr) ==
    IF read_target(addr)[1] \in {"bios", "oam", "cart", "unused", "none"}
    THEN <<"ignored", 0>>
    ELSE read_target(addr)

\* <Bus as bus::Bus>::write_byte: the accesses handed on, in order
bus_write_byte(addr, value) ==
    IF write_target(addr)[1] = "ignored"
    THEN <<>>
    ELSE <<[addr |-> write_target(addr)[2], value |-> value,
            op |-> "write_byte", to |-> write_target(addr)[1]]>>

\* addr & !1
hword_align(addr) == <<addr[1], addr[2] - (addr[2] % 2)>>

\* a half-word write that is always split into bytes
bus_write_hword_as_bytes(addr, value) ==
    bus_write_byte(hword_align(addr), value % 256)
      \o bus_write_byte(WrappingAdd(hword_align(addr), 1), value \div 256)

\* <Bus as bus::Bus>::write_hword
bus_write_hword(addr, value) ==
    IF read_target(addr)[1] \in {"palette_ram", "vram", "oam"}
    THEN <<[addr |-> read_target(addr)[2], value |-> value,
            op |-> "write_hword", to |-> read_target(addr)[1]]>>
    ELSE bus_write_byte(hword_align(addr), value % 256)
           \o bus_write_byte(WrappingAdd(hword_align(addr), 1), value \div 256)

\* bus::Bus::write_word: the low half-word at addr & !3, the high one after
bus_write_word(addr, value) ==
    bus_write_hword(word_align(addr), value[2])
      \o bus_write_hword(WrappingAdd(word_align(addr), 2), value[1])

\* the byte of work RAM or of the catch-all buffer at an offset
mem_byte(m, name, offset) ==
    IF <<name, offset \div 2>> \in MemKeys
    THEN Bits(m[<<name, offset \div 2>>], 8 * (offset % 2), 8 * (offset % 2) + 8)
    ELSE 0

\* the collaborators' state after the accesses handed to them
RECURSIVE deliver(_, _)
deliver(g, accesses) ==
    IF accesses = <<>> THEN g
    ELSE LET a == Head(accesses)
             key == <<a.to, a.addr \div 2>>
         IN  deliver(
               CASE key \in MemKeys ->
                      [g EXCEPT !.mem[key] =
                          SetBits(@, 8 * (a.addr % 2), 8 * (a.addr % 2) + 8, a.value)]
                 [] a.to = "dma" -> [g EXCEPT !.dma = write_byte(@, a.addr, a.value)]
                 [] a.to = "haltcnt" -> [g EXCEPT !.haltcnt = haltcnt_write(a.value)]
                 [] OTHER -> g,
               Tail(accesses))

\* the value of a read that a collaborator outside this state answers
Unmodelled == 0 - 1

\* an unused address that reads as 0
unused_reads_zero(m, d, addr) ==
    LET t == read_target(addr)
    IN  CASE t[1] \in {"ewram", "iwram", "io_todo"} -> mem_byte(m, t[1], t[2])
          [] t[1] = "dma" -> read_byte(d, t[2])
          [] t[1] = "haltcnt" -> haltcnt_read
          [] t[1] \in {"unused", "none"} -> 0
          [] OTHER -> Unmodelled

\* <Bus as bus::Bus>::read_byte
bus_read_byte(m, d, addr) ==
    LET t == read_target(addr)
    IN  CASE t[1] \in {"ewram", "iwram", "io_todo"} -> mem_byte(m, t[1], t[2])
          [] t[1] = "dma" -> read_byte(d, t[2])
          [] t[1] = "haltcnt" -> haltcnt_read
          [] t[1] = "unused" -> 255
          [] t[1] = "none" -> 0
          [] OTHER -> Unmodelled

\* bus::Bus::read_word: the four bytes from addr & !3, as <<high, low>>
bus_read_word(m, d, addr) ==
    LET byte(i) == bus_read_byte(m, d, WrappingAdd(word_align(addr), i))
    IN  <<byte(3) * 256 + byte(2), byte(1) * 256 + byte(0)>>

\* a reset that clears the top 512 bytes whatever skip_bios is
reset_always_clears(m, skip_bios) ==
    [k \in MemKeys |-> IF k[1] = "iwram" /\ 2 * k[2] >= 32256 THEN 0 ELSE m[k]]

\* Gba::reset, as far as work RAM goes: iwram[0x7e00..].fill(0) under skip_bios
reset(m, skip_bios) ==
    IF skip_bios
    THEN [k \in MemKeys |-> IF k[1] = "iwram" /\ 2 * k[2] >= 32256 THEN 0 ELSE m[k]]
    ELSE m

----------------------------------------------------------------------------
(* The bus driven from outside: byte, half-word and word writes, byte and  *)
(* word reads and Gba::reset, at addresses of every region.  After         *)
(* construction work RAM and the catch-all buffer are zero.  What          *)
(* Gba::reset does to the Cpu and to the BIOS is left aside.               *)

\* the bus operations of one run
MaxBusOps == 3

ByteAddrs ==
    { <<0, 16384>>, <<1024, 1023>>, <<3585, 0>>, <<65535, 65535>>,   \* unused
      <<512, 0>>, <<516, 1>>, <<512, 4>>,                            \* external work RAM
      <<768, 0>>, <<768, 32255>>, <<768, 32256>>, <<1023, 65535>>,   \* internal work RAM
      <<1024, 96>>, <<1024, 516>>, <<1024, 1022>>,                   \* unimplemented I/O
      <<1024, 187>>, <<1024, 769>>,                                  \* DMA0CNT_H high byte, HALTCNT
      <<1792, 2>>, <<2047, 1023>>, <<1280, 2>>, <<0, 0>> }           \* OAM, palette RAM, BIOS

HwordAddrs ==
    { <<1792, 2>>, <<1280, 2>>, <<1536, 4>>,      \* OAM, palette RAM, VRAM
      <<512, 2>>, <<768, 32254>>, <<1024, 96>> }  \* work RAM, unimplemented I/O

WordAddrs == { <<512, 0>>, <<516, 4>>, <<764, 0>>, <<768, 0>>, <<1023, 32768>> }

BusOp ==
    /\ nsteps < MaxBusOps
    /\ nsteps' = nsteps + 1
    /\ UNCHANGED <<effect, irqReq, cpuRan, nwrites, irq, reg, entry, lastLeft>>

\* a write: the accesses the router hands on take effect
Handed(op, addr, value, accesses) ==
    /\ BusOp
    /\ \E g \in {deliver([mem |-> mem, dma |-> dma, haltcnt |-> haltcnt], accesses)} :
          /\ mem' = g.mem
          /\ dma' = g.dma
          /\ haltcnt' = g.haltcnt
    /\ last' = [op |-> op, chan |-> NoChan, arg |-> addr, value |-> value,
                handed |-> accesses]

BusWriteByte(addr, value) ==
    Handed("bus_write_byte", addr, value, bus_write_byte(addr, value))

BusWriteHword(addr, value) ==
    Handed("bus_write_hword", addr, value, bus_write_hword(addr, value))

BusWriteWord(addr, value) ==
    Handed("bus_write_word", addr, value, bus_write_word(addr, value))

\* a read: nothing changes but the record of what it returned
Returned(op, addr, value) ==
    /\ BusOp
    /\ last' = [op |-> op, chan |-> NoChan, arg |-> addr, value |-> value]
    /\ UNCHANGED <<mem, dma, haltcnt>>

BusReadByte(addr) == Returned("bus_read_byte", addr, bus_read_byte(mem, dma, addr))

BusReadWord(addr) == Returned("bus_read_word", addr, bus_read_word(mem, dma, addr))

GbaReset(skip_bios) ==
    /\ BusOp
    /\ mem' = reset(mem, skip_bios)
    \* value: the half-word at 0x7e00 before the reset
    /\ last' = [op |-> "reset", chan |-> NoChan, arg |-> skip_bios,
                value |-> mem[<<"iwram", 16128>>]]
    /\ UNCHANGED <<dma, haltcnt>>

NextBus ==
    \/ \E addr \in ByteAddrs, value \in {90, 255} : BusWriteByte(addr, value)
    \/ \E addr \in HwordAddrs : BusWriteHword(addr, 42330)
    \/ \E addr \in WordAddrs \ {<<764, 0>>} : BusWriteWord(addr, <<4660, 22136>>)
    \/ \E addr \in ByteAddrs : BusReadByte(addr)
    \/ \E addr \in WordAddrs : BusReadWord(addr)
    \/ \E skip_bios \in BOOLEAN : GbaReset(skip_bios)

SpecBus == Init /\ [][NextBus]_vars

----------------------------------------------------------------------------
(* The Thumb decoder, Cpu::execute_thumb: the instruction's high 3, 4, 5,  *)
(* 6 and 8 bits are matched against the arms in the order they are         *)
(* written, and the arm's handler matches a field of the instruction       *)
(* against its sub-opcodes.                                                *)

\* a match whose unconditional-branch arm compares four bits, 1110
ThumbArmsBranchFour ==
    << <<8, 176, "thumb13">>, <<8, 223, "SoftwareInterrupt">>,
       <<6, 16, "thumb4">>, <<6, 17, "thumb5">>,
       <<5, 3, "thumb2">>, <<5, 9, "thumb6">>, <<4, 14, "thumb18">>,
       <<4, 5, "thumb7_thumb8">>, <<4, 8, "thumb10">>, <<4, 9, "thumb11">>,
       <<4, 10, "thumb12">>, <<4, 11, "thumb14">>, <<4, 12, "thumb15">>,
       <<4, 13, "thumb16">>, <<4, 15, "thumb19">>,
       <<3, 0, "thumb1">>, <<3, 1, "thumb3">>, <<3, 3, "thumb9">> >>

\* the arms of execute_thumb's match: <<high bits compared, pattern, handler>>
ThumbArms ==
    << <<8, 176, "thumb13">>, <<8, 223, "SoftwareInterrupt">>,
       <<6, 16, "thumb4">>, <<6, 17, "thumb5">>,
       <<5, 3, "thumb2">>, <<5, 9, "thumb6">>, <<5, 28, "thumb18">>,
       <<4, 5, "thumb7_thumb8">>, <<4, 8, "thumb10">>, <<4, 9, "thumb11">>,
       <<4, 10, "thumb12">>, <<4, 11, "thumb14">>, <<4, 12, "thumb15">>,
       <<4, 13, "thumb16">>, <<4, 15, "thumb19">>,
       <<3, 0, "thumb1">>, <<3, 1, "thumb3">>, <<3, 3, "thumb9">> >>

\* instr.bits((16 - n)..) == pattern
arm_matches(instr, arm) == Bits(instr, 16 - arm[1], 16) = arm[2]

\* the arms an instruction matches, by position
matching_arms(instr) == {i \in DOMAIN ThumbArms : arm_matches(instr, ThumbArms[i])}

\* a match in which the last arm that matches is the one taken
execute_thumb_last_arm(instr) ==
    IF matching_arms(instr) = {}
    THEN "UndefinedInstr"
    ELSE ThumbArms[CHOOSE i \in matching_arms(instr) :
                       \A j \in matching_arms(instr) : j <= i][3]

\* execute_thumb: the first arm that matches, or the catch-all
execute_thumb_arm(instr) ==
    IF matching_arms(instr) = {}
    THEN "UndefinedInstr"
    ELSE ThumbArms[CHOOSE i \in matching_arms(instr) :
                       \A j \in matching_arms(instr) : i <= j][3]

\* the field a handler matches its sub-opcodes on (0 where it has no match)
sub_opcode(arm, instr) ==
    CASE arm \in {"thumb1", "thumb3", "thumb9"} -> Bits(instr, 11, 13)
      [] arm = "thumb2" -> Bits(instr, 9, 11)
      [] arm = "thumb4" -> Bits(instr, 6, 10)
      [] arm = "thumb5" -> Bits(instr, 8, 10)
      [] arm = "thumb7_thumb8" -> Bits(instr, 10, 12)
      [] OTHER -> 0

\* the sub-opcodes with an arm of their own; any other reaches unreachable!()
sub_opcodes(arm) ==
    CASE arm = "thumb1" -> 0 .. 2
      [] arm \in {"thumb2", "thumb3", "thumb5", "thumb7_thumb8", "thumb9"} -> 0 .. 3
      [] arm = "thumb4" -> 0 .. 15
      [] OTHER -> {0}

\* every 16-bit encoding, fetched and about to be executed
InitDecode ==
    /\ \E instr \in 0 .. 65535 :
         last = [op |-> "fetch", chan |-> NoChan, arg |-> instr]
    /\ dma = DmaNew
    /\ effect = NoEffect
    /\ irqReq = {}
    /\ haltcnt = "Running"
    /\ cpuRan = FALSE
    /\ nsteps = 0
    /\ nwrites = 0
    /\ mem = MemNew
    /\ irq = IrqNew
    /\ reg = [RegistersDefault EXCEPT !.cpsr.state = "Thumb"]
    /\ entry = RegistersDefault
    /\ lastLeft = RegistersDefault.banks

\* the match of execute_thumb and of the handler it selects
Dispatch ==
    /\ last.op = "fetch"
    /\ \E arm \in {execute_thumb_arm(last.arg)} :
         last' = [op |-> "execute_thumb", chan |-> NoChan, arg |-> last.arg,
                  value |-> arm, sub |-> sub_opcode(arm, last.arg)]
    /\ UNCHANGED <<dma, effect, irqReq, haltcnt, cpuRan, nsteps, nwrites, mem, irq,
                   reg, entry, lastLeft>>

SpecDecode == InitDecode /\ [][Dispatch]_vars

----------------------------------------------------------------------------
(* Thumb execution: the instructions whose handlers are exception entry    *)
(* and the unconditional branch.  Registers hold 32-bit words as           *)
(* <<high half, low half>>.                                                *)

PC_INDEX == 15

\* Registers::default with every u32 as two halves
RegistersDefault32 ==
    [r |-> [i \in 0 .. 15 |-> <<0, 0>>],
     cpsr |-> StatusRegisterDefault,
     spsr |-> StatusRegisterDefault,
     banks |-> [b \in 0 .. 5 |->
                [sp |-> <<0, 0>>, lr |-> <<0, 0>>, spsr |-> StatusRegisterDefault]],
     fiq_r8_12_bank |-> [i \in 0 .. 4 |-> <<0, 0>>]]

\* sign_extend!(i32, x, bitcount)
sign_extend(x, bitcount) ==
    IF Bit(x, bitcount - 1) THEN x - Pow2(bitcount) ELSE x

\* Exception::vector_addr
vector_addr(exception) ==
    CASE exception = "UndefinedInstr" -> 4
      [] exception = "SoftwareInterrupt" -> 8

\* Exception::entry_mode
entry_mode(exception) ==
    CASE exception = "UndefinedInstr" -> "UndefinedInstr"
      [] exception = "SoftwareInterrupt" -> "Supervisor"

\* Cpu::reload_pipeline: the PC aligned to the instruction size, then
\* advanced by two instructions
reload_pipeline(g) ==
    [g EXCEPT !.r[PC_INDEX] =
        IF g.cpsr.state = "Arm"
        THEN WrappingAdd(word_align(@), 8)
        ELSE WrappingAdd(hword_align(@), 4)]

\* Cpu::enter_exception from Thumb state, for the two exceptions an
\* instruction raises: the link register is r15 less 4
enter_exception(g, exception) ==
    LET m == change_mode(g, entry_mode(exception))
    IN  reload_pipeline(
          [m EXCEPT !.spsr = g.cpsr,
                    !.r[LR_INDEX] = WrappingSub(g.r[PC_INDEX], 4),
                    !.cpsr.irq_disabled = TRUE,
                    !.cpsr.state = "Arm",
                    !.r[PC_INDEX] = <<0, vector_addr(exception)>>])

\* Cpu::execute_branch(bus, base_addr, offset)
execute_branch(g, base_addr, offset) ==
    reload_pipeline(
      [g EXCEPT !.r[PC_INDEX] =
          IF offset >= 0
          THEN WrappingAdd(base_addr, offset)
          ELSE WrappingSub(base_addr, 0 - offset)])

\* Thumb.18: unconditional branch
execute_thumb18(g, instr) ==
    execute_branch(g, g.r[PC_INDEX], 2 * sign_extend(Bits(instr, 0, 11), 11))

\* bit i of a 32-bit word
Bit32(w, i) == IF i >= 16 THEN Bit(w[1], i - 16) ELSE Bit(w[2], i)

\* !w
Not32(w) == <<Half - 1 - w[1], Half - 1 - w[2]>>

\* a + b + c with the carry out of bit 31
Add32(a, b, c) ==
    LET lo == a[2] + b[2] + c
        hi == a[1] + b[1] + lo \div Half
    IN  [value |-> <<hi % Half, lo % Half>>, carry |-> hi >= Half]

\* w << n, for n below 32
Lsl32(w, n) ==
    IF n < 16
    THEN <<(w[1] % Pow2(16 - n)) * Pow2(n) + (w[2] * Pow2(n)) \div Half,
           (w[2] * Pow2(n)) % Half>>
    ELSE <<(w[2] % Pow2(32 - n)) * Pow2(n - 16), 0>>

\* w >> n, for n from 1 to 32
Lsr32(w, n) ==
    CASE n < 16 -> <<w[1] \div Pow2(n), w[2] \div Pow2(n) + (w[1] % Pow2(n)) * Pow2(16 - n)>>
      [] n \in 16 .. 31 -> <<0, w[1] \div Pow2(n - 16)>>
      [] OTHER -> <<0, 0>>

\* the flags signed and zero taken from a result
set_nz(psr, value) ==
    [psr EXCEPT !.signed = Bit32(value, 31), !.zero = (value = <<0, 0>>)]

\* Cpu::execute_add_cmn(update_cond, a, b)
execute_add_cmn(psr, update_cond, a, b) ==
    LET sum == Add32(a, b, 0)
    IN  [value |-> sum.value,
         psr |-> IF update_cond
                 THEN [set_nz(psr, sum.value) EXCEPT
                         !.carry = sum.carry,
                         !.overflow = /\ Bit32(a, 31) = Bit32(b, 31)
                                      /\ Bit32(sum.value, 31) # Bit32(a, 31)]
                 ELSE psr]

\* Cpu::execute_sub_cmp(update_cond, a, b): carry is set when nothing is borrowed
execute_sub_cmp(psr, update_cond, a, b) ==
    LET diff == Add32(a, Not32(b), 1)
    IN  [value |-> diff.value,
         psr |-> IF update_cond
                 THEN [set_nz(psr, diff.value) EXCEPT
                         !.carry = diff.carry,
                         !.overflow = /\ Bit32(a, 31) # Bit32(b, 31)
                                      /\ Bit32(diff.value, 31) # Bit32(a, 31)]
                 ELSE psr]

\* Cpu::execute_mov(update_cond, value)
execute_mov(psr, update_cond, value) ==
    [value |-> value, psr |-> IF update_cond THEN set_nz(psr, value) ELSE psr]

\* Cpu::execute_lsl(value, offset), offset below 32: a shift by 0 keeps the carry
execute_lsl(psr, value, offset) ==
    [value |-> Lsl32(value, offset),
     psr |-> [set_nz(psr, Lsl32(value, offset)) EXCEPT
                !.carry = IF offset = 0 THEN @ ELSE Bit32(value, 32 - offset)]]

\* Cpu::execute_lsr(value, offset), offset below 32: an offset of 0 shifts by 32
execute_lsr(psr, value, offset) ==
    LET n == IF offset = 0 THEN 32 ELSE offset
    IN  [value |-> Lsr32(value, n),
         psr |-> [set_nz(psr, Lsr32(value, n)) EXCEPT !.carry = Bit32(value, n - 1)]]

\* Cpu::execute_asr(value, offset), offset below 32: an offset of 0 shifts by 32
execute_asr(psr, value, offset) ==
    LET n == IF offset = 0 THEN 32 ELSE offset
        shifted == IF Bit32(value, 31)
                   THEN Not32(Lsr32(Not32(value), n))
                   ELSE Lsr32(value, n)
    IN  [value |-> shifted,
         psr |-> [set_nz(psr, shifted) EXCEPT !.carry = Bit32(value, n - 1)]]

\* Cpu::execute_bx(bus, addr): bit 0 of the address selects the state
execute_bx(g, addr) ==
    reload_pipeline(
      [g EXCEPT !.cpsr.state = IF Bit32(addr, 0) THEN "Thumb" ELSE "Arm",
                !.r[PC_INDEX] = addr])

\* Cpu::meets_condition(cond): the standard condition table
meets_condition(psr, cond) ==
    CASE cond = 0 -> psr.zero
      [] cond = 1 -> ~psr.zero
      [] cond = 2 -> psr.carry
      [] cond = 3 -> ~psr.carry
      [] cond = 4 -> psr.signed
      [] cond = 5 -> ~psr.signed
      [] cond = 6 -> psr.overflow
      [] cond = 7 -> ~psr.overflow
      [] cond = 8 -> psr.carry /\ ~psr.zero
      [] cond = 9 -> ~psr.carry \/ psr.zero
      [] cond = 10 -> psr.signed = psr.overflow
      [] cond = 11 -> psr.signed # psr.overflow
      [] cond = 12 -> ~psr.zero /\ psr.signed = psr.overflow
      [] cond = 13 -> psr.zero \/ psr.signed # psr.overflow
      [] cond = 14 -> TRUE
      [] OTHER -> FALSE

\* an r_index that takes four bits
r_index_four_bits(instr, pos) == Bits(instr, pos, pos + 4)

\* r_index(instr, pos)
r_index(instr, pos) == Bits(instr, pos, pos + 3)

\* a register and the status register written with the result of an operation
written(g, r_dst, res) == [g EXCEPT !.r[r_dst] = res.value, !.cpsr = res.psr]

\* Thumb.1: move shifted register
execute_thumb1(g, instr) ==
    LET value == g.r[r_index(instr, 3)]
        offset == Bits(instr, 6, 11)
    IN  written(g, r_index(instr, 0),
                CASE Bits(instr, 11, 13) = 0 -> execute_lsl(g.cpsr, value, offset)
                  [] Bits(instr, 11, 13) = 1 -> execute_lsr(g.cpsr, value, offset)
                  [] Bits(instr, 11, 13) = 2 -> execute_asr(g.cpsr, value, offset))

\* an add or subtract whose third operand is always the immediate
execute_thumb2_immediate(g, instr) ==
    LET a == g.r[r_index(instr, 3)]
        b == <<0, r_index(instr, 6)>>
    IN  written(g, r_index(instr, 0),
                IF Bits(instr, 9, 11) \in {0, 2}
                THEN execute_add_cmn(g.cpsr, TRUE, a, b)
                ELSE execute_sub_cmp(g.cpsr, TRUE, a, b))

\* Thumb.2: add or subtract
execute_thumb2(g, instr) ==
    LET a == g.r[r_index(instr, 3)]
        r == r_index(instr, 6)
        b == <<0, r>>
    IN  written(g, r_index(instr, 0),
                CASE Bits(instr, 9, 11) = 0 -> execute_add_cmn(g.cpsr, TRUE, a, g.r[r])
                  [] Bits(instr, 9, 11) = 1 -> execute_sub_cmp(g.cpsr, TRUE, a, g.r[r])
                  [] Bits(instr, 9, 11) = 2 -> execute_add_cmn(g.cpsr, TRUE, a, b)
                  [] Bits(instr, 9, 11) = 3 -> execute_sub_cmp(g.cpsr, TRUE, a, b))

\* Thumb.5: hi register operations or branch exchange
execute_thumb5(g, instr) ==
    LET r_src == r_index(instr, 3) + (IF Bit(instr, 6) THEN 8 ELSE 0)
        value == g.r[r_src]
        op == Bits(instr, 8, 10)
        r_dst == r_index(instr, 0) + (IF Bit(instr, 7) THEN 8 ELSE 0)
        done == CASE op = 0 ->
                       written(g, r_dst, execute_add_cmn(g.cpsr, FALSE, g.r[r_dst], value))
                  [] op = 1 ->
                       [g EXCEPT !.cpsr =
                           execute_sub_cmp(g.cpsr, TRUE, g.r[r_dst], value).psr]
                  [] op = 2 -> written(g, r_dst, execute_mov(g.cpsr, FALSE, value))
                  [] OTHER -> g
    IN  CASE op = 3 -> execute_bx(g, value)
          [] op # 3 /\ op # 1 /\ r_dst = PC_INDEX -> reload_pipeline(done)
          [] OTHER -> done

\* Thumb.12: get relative address
execute_thumb12(g, instr) ==
    LET offset == <<0, Bits(instr, 0, 8)>>
        base_addr == g.r[IF Bit(instr, 11) THEN SP_INDEX ELSE PC_INDEX]
    IN  written(g, r_index(instr, 8), execute_add_cmn(g.cpsr, FALSE, base_addr, offset))

\* an add of an offset to SP that updates the flags
execute_thumb13_sets_flags(g, instr) ==
    LET offset == <<0, Bits(instr, 0, 7) * 4>>
    IN  written(g, SP_INDEX,
                IF Bit(instr, 7)
                THEN execute_sub_cmp(g.cpsr, TRUE, g.r[SP_INDEX], offset)
                ELSE execute_add_cmn(g.cpsr, TRUE, g.r[SP_INDEX], offset))

\* Thumb.13: add offset to SP
execute_thumb13(g, instr) ==
    LET offset == <<0, Bits(instr, 0, 7) * 4>>
    IN  written(g, SP_INDEX,
                IF Bit(instr, 7)
                THEN execute_sub_cmp(g.cpsr, FALSE, g.r[SP_INDEX], offset)
                ELSE execute_add_cmn(g.cpsr, FALSE, g.r[SP_INDEX], offset))

\* a conditional branch whose offset is not sign-extended
execute_thumb16_unsigned(g, instr) ==
    IF meets_condition(g.cpsr, Bits(instr, 8, 12))
    THEN execute_branch(g, g.r[PC_INDEX], 2 * Bits(instr, 0, 8))
    ELSE g

\* Thumb.16: conditional branch; the offset is instr.bits(..8) as i8
execute_thumb16(g, instr) ==
    IF meets_condition(g.cpsr, Bits(instr, 8, 12))
    THEN execute_branch(g, g.r[PC_INDEX], 2 * sign_extend(Bits(instr, 0, 8), 8))
    ELSE g

\* the arms of execute_thumb whose handlers are modelled
Executable ==
    {"UndefinedInstr", "SoftwareInterrupt", "thumb1", "thumb2", "thumb5", "thumb12",
     "thumb13", "thumb16", "thumb18"}

\* Cpu::execute_thumb
execute_thumb(g, instr) ==
    CASE execute_thumb_arm(instr) = "thumb1" -> execute_thumb1(g, instr)
      [] execute_thumb_arm(instr) = "thumb2" -> execute_thumb2(g, instr)
      [] execute_thumb_arm(instr) = "thumb5" -> execute_thumb5(g, instr)
      [] execute_thumb_arm(instr) = "thumb12" -> execute_thumb12(g, instr)
      [] execute_thumb_arm(instr) = "thumb13" -> execute_thumb13(g, instr)
      [] execute_thumb_arm(instr) = "thumb16" -> execute_thumb16(g, instr)
      [] execute_thumb_arm(instr) = "thumb18" -> execute_thumb18(g, instr)
      [] execute_thumb_arm(instr) \in {"UndefinedInstr", "SoftwareInterrupt"} ->
            enter_exception(g, execute_thumb_arm(instr))

\* the instructions executed in one run
MaxInstrs == 2

\* every encoding no pattern matches, two software interrupts and branches
\* by 2046 and by -2048
ThumbInstrs == (59392 .. 61439) \cup {57154, 57258} \cup {58367, 58368}

\* in Thumb state, in User or UndefinedInstr mode, with a link register
InitThumb ==
    /\ \E pc \in {<<0, 200>>, <<0, 2>>, <<0, 8192>>}, mode \in {"User", "UndefinedInstr"} :
         reg = [RegistersDefault32 EXCEPT !.cpsr.state = "Thumb",
                                          !.cpsr.mode = mode,
                                          !.r[PC_INDEX] = pc,
                                          !.r[LR_INDEX] = <<1, 1>>]
    /\ entry = RegistersDefault
    /\ lastLeft = RegistersDefault.banks
    /\ dma = DmaNew
    /\ effect = NoEffect
    /\ irqReq = {}
    /\ haltcnt = "Running"
    /\ cpuRan = FALSE
    /\ last = NoOp
    /\ nsteps = 0
    /\ nwrites = 0
    /\ mem = MemNew
    /\ irq = IrqNew

\* execute_thumb(bus, instr)
ExecuteThumb(instr) ==
    /\ nsteps < MaxInstrs
    /\ reg.cpsr.state = "Thumb"
    /\ execute_thumb_arm(instr) \in Executable
    /\ nsteps' = nsteps + 1
    /\ reg' = execute_thumb(reg, instr)
    /\ last' = [op |-> "execute_thumb", chan |-> NoChan, arg |-> instr,
                value |-> execute_thumb_arm(instr)]
    /\ UNCHANGED <<dma, effect, irqReq, haltcnt, cpuRan, nwrites, mem, irq,
                   entry, lastLeft>>

SpecThumb == InitThumb /\ [][\E instr \in ThumbInstrs : ExecuteThumb(instr)]_vars

\* shifts, additions, hi register operations, relative addresses, offsets to
\* SP and branches; 0x000c and 0x00cc, 0x19b0 and 0x19f0 among them
OpsInstrs ==
    {12, 204, 2124, 4144} \cup {6576, 6640, 7096, 7624}
      \cup {17584, 17599, 17729, 17855, 18096, 17984, 18184}
      \cup {41215, 43008} \cup {45056, 45311}
      \cup {53503, 53631, 55424, 56065, 56834} \cup {58367, 58368}

\* in Thumb state with every combination of the four flags; r1 = 0b10,
\* r6 = 0xffff_ffff, r7 = 1, r8 = 0x8000_0000, SP = 8
InitOps ==
    /\ \E pc \in {<<0, 8192>>, <<0, 4>>}, n, z, c, v \in BOOLEAN :
         reg = [RegistersDefault32 EXCEPT !.cpsr.state = "Thumb",
                                          !.cpsr.signed = n,
                                          !.cpsr.zero = z,
                                          !.cpsr.carry = c,
                                          !.cpsr.overflow = v,
                                          !.r[1] = <<0, 2>>,
                                          !.r[6] = <<65535, 65535>>,
                                          !.r[7] = <<0, 1>>,
                                          !.r[8] = <<32768, 0>>,
                                          !.r[SP_INDEX] = <<0, 8>>,
                                          !.r[PC_INDEX] = pc]
    /\ entry = RegistersDefault
    /\ lastLeft = RegistersDefault.banks
    /\ dma = DmaNew
    /\ effect = NoEffect
    /\ irqReq = {}
    /\ haltcnt = "Running"
    /\ cpuRan = FALSE
    /\ last = NoOp
    /\ nsteps = 0
    /\ nwrites = 0
    /\ mem = MemNew
    /\ irq = IrqNew

SpecOps == InitOps /\ [][\E instr \in OpsInstrs : ExecuteThumb(instr)]_vars

----------------------------------------------------------------------------
(* The DMA controller driven with every address control, both widths, a    *)
(* source near address 0 and the audio FIFO.                               *)

\* the addresses the closure Dma::step returns hands to the bus, unit by
\* unit as <<src_addr, dst_addr>>, followed by the pair its loop ends with
RECURSIVE transfer_addrs(_, _, _, _)
transfer_addrs(e, left, src_addr, dst_addr) ==
    IF left = 0 THEN << <<src_addr, dst_addr>> >>
    ELSE << <<src_addr, dst_addr>> >>
           \o transfer_addrs(e, left - 1,
                             update_addr(src_addr, e.src_addr_ctrl, e.stride),
                             update_addr(dst_addr, e.dst_addr_ctrl, e.stride))

UnitChannels == {1, 3}

UnitWordWrites ==
    { <<0, 2, 0>>,                                \* DMAXSAD = 2
      <<4, 160, 1024>>,                           \* DMAXDAD = 0x0400_00a0 (FIFO A)
      <<8, 5, 32768 + 128 + 64>>,                 \* 5 half-words, immediate, src decrement, dst fixed
      <<8, 5, 32768 + 1024 + 512 + 256 + 96>>,    \* 5 words, immediate, repeat, src fixed, dst reload
      <<8, 2, 32768 + 384 + 32>>,                 \* 2 half-words, immediate, src control 3, dst decrement
      <<8, 2, 32768 + 12288 + 128 + 32>> }        \* special timing, src decrement, dst decrement

NextUnits ==
    \/ \E c \in UnitChannels, w \in UnitWordWrites : DmaWriteWord(c, w[1], w[2], w[3])
    \/ DmaNotify("AudioFifoA")
    \/ \E n \in StepCycles : DmaStep(n)

SpecUnits == Init /\ [][NextUnits]_vars

----------------------------------------------------------------------------
(* Properties of the DMA controller, checked under SpecDma.                *)

WriteOps == {"write_byte", "write_hword", "write_word"}

\* the largest value the 16-bit count register can hand to a channel
raw_max(chan_idx) == IF chan_idx = 3 THEN 65536 ELSE 65535

\* C3, as stated: every channel's remaining block count lies between 0 and
\* the channel's maximum (0x4000 for channels 0-2, 0x1_0000 for channel 3) at
\* every step boundary.
C3_Original ==
    \A c \in Channels :
        dma[c].rem_blocks >= 0 /\ dma[c].rem_blocks <= max_blocks(c)

\* C3, amended: the remaining block count is never negative and never above
\* the raw 16-bit count (0xffff) on channels 0-2 or 0x1_0000 on channel 3; and
\* whenever a channel is started (Idle to Starting) its remaining block count
\* afterwards lies between 1 and the channel's maximum.
C3_RemBlocksBounded ==
    [][\A c \in Channels :
         /\ dma'[c].rem_blocks >= 0
         /\ dma'[c].rem_blocks <= raw_max(c)
         /\ (dma[c].state = "None" /\ dma'[c].state = "StartingTransfer")
               => dma'[c].rem_blocks \in 1 .. max_blocks(c)]_vars

\* a notification has just started a channel whose count register holds more
\* than the channel's maximum, and the remaining blocks are the maximum
C3_Witness ==
    /\ last.op = "notify"
    /\ \E c \in 0 .. 2 :
         /\ dma[c].state = "StartingTransfer"
         /\ dma[c].initial_blocks = 65280
         /\ dma[c].rem_blocks = max_blocks(c)

\* the register write that has just happened took channel c from disabled to
\* enabled
EnableEdge(c) ==
    /\ last'.op \in WriteOps
    /\ last'.chan = c
    /\ ~dma[c].enabled
    /\ dma'[c].enabled

\* C4, as stated: the enable edge copies the initial source, destination and
\* block count into the running registers, and moves an Idle channel to
\* Starting exactly when its timing mode is immediate.
C4_Original ==
    [][\A c \in Channels : EnableEdge(c) =>
         /\ dma'[c].src_addr = dma'[c].initial_src_addr
         /\ dma'[c].dst_addr = dma'[c].initial_dst_addr
         /\ dma'[c].rem_blocks = dma'[c].initial_blocks
         /\ dma[c].state = "None" =>
              dma'[c].state = IF dma'[c].timing_mode = 0
                              THEN "StartingTransfer" ELSE "None"]_vars

\* C4, amended: as stated, except that when the edge starts the transfer (an
\* Idle channel with immediate timing) a count of 0 or above the channel's
\* maximum is replaced by the maximum; a channel that is not Idle keeps its
\* transfer state.
C4_EnableEdge ==
    [][\A c \in Channels : EnableEdge(c) =>
         LET starts == dma[c].state = "None" /\ dma'[c].timing_mode = 0
             count  == dma'[c].initial_blocks
         IN  /\ dma'[c].src_addr = dma'[c].initial_src_addr
             /\ dma'[c].dst_addr = dma'[c].initial_dst_addr
             /\ dma'[c].rem_blocks =
                  IF starts /\ (count = 0 \/ count > max_blocks(c))
                  THEN max_blocks(c) ELSE count
             /\ dma'[c].state = IF starts THEN "StartingTransfer"
                                ELSE dma[c].state]_vars

\* an enable edge has just started a channel whose count register is 0
C4_Witness ==
    /\ last.op \in WriteOps
    /\ \E c \in Channels :
         /\ last.chan = c
         /\ dma[c].state = "StartingTransfer"
         /\ dma[c].timing_mode = 0
         /\ dma[c].initial_blocks = 0
         /\ dma[c].rem_blocks = max_blocks(c)

\* what a step with a budget of `cycles` leaves of a channel's blocks
left_after(chan, cycles) ==
    chan.rem_blocks - (IF chan.rem_blocks < cycles THEN chan.rem_blocks ELSE cycles)

\* C6: a step that brings the serviced channel's remaining blocks to zero
\* makes it Idle; with repeat set the channel stays enabled, its remaining
\* blocks are reloaded from the initial count and, when destination control
\* is 3, its destination from the initial destination; with repeat clear the
\* channel is disabled.  A step that leaves blocks keeps the channel enabled
\* and InProgress.
C6_StepCompletion ==
    [][last'.op = "step" =>
         LET pre  == dma[last'.chan]
             post == dma'[last'.chan]
             left == left_after(pre, last'.arg)
         IN  IF left = 0
             THEN /\ post.state = "None"
                  /\ pre.repeat =>
                       /\ post.enabled
                       /\ post.rem_blocks = pre.initial_blocks
                       /\ pre.dst_addr_ctrl = 3 =>
                            post.dst_addr = pre.initial_dst_addr
                  /\ ~pre.repeat => ~post.enabled
             ELSE /\ post.enabled
                  /\ post.state = "Transferring"
                  /\ post.rem_blocks = left]_vars

\* a step has just completed a repeating channel with destination control 3:
\* the count and the destination are reloaded
C6_Witness ==
    /\ last.op = "step"
    /\ LET chan == dma[last.chan]
       IN  /\ chan.state = "None" /\ chan.enabled /\ chan.repeat
           /\ chan.dst_addr_ctrl = 3
           /\ chan.rem_blocks = 5 /\ chan.initial_blocks = 5
           /\ chan.dst_addr = chan.initial_dst_addr
           /\ effect.dst_addr # chan.initial_dst_addr

\* C7: an operation requests a DMA interrupt exactly when it is a step that
\* brings the serviced channel's remaining blocks to zero while that channel's
\* IRQ-on-complete flag is set, and the interrupt is the serviced channel's.
C7_IrqOnComplete ==
    [][irqReq' =
         IF /\ last'.op = "step"
            /\ left_after(dma[last'.chan], last'.arg) = 0
            /\ dma[last'.chan].irq_enabled
         THEN {last'.chan} ELSE {}]_vars

\* a step has just completed a channel and requested its interrupt
C7_Witness ==
    /\ last.op = "step"
    /\ irqReq = {last.chan}
    /\ dma[last.chan].state = "None"
    /\ dma[last.chan].irq_enabled

\* C8, as stated: a step services the lowest-indexed channel whose transfer
\* state is not Idle, moves min(remaining blocks, cycle budget) units for it
\* and leaves every other channel unchanged.
C8_Original ==
    [][last'.op = "step" =>
         LET busy == {c \in Channels : dma[c].state # "None"}
             low  == CHOOSE c \in busy : \A o \in busy : c <= o
         IN  /\ last'.chan = low
             /\ effect'.chan = low
             /\ effect'.blocks = dma[low].rem_blocks - left_after(dma[low], last'.arg)
             /\ \A o \in Channels \ {low} : dma'[o] = dma[o]]_vars

----------------------------------------------------------------------------
(* Properties of control writes, notifications and the audio FIFO          *)
(* override, checked under SpecFifo.                                       *)

\* C5: a 16-bit write of a channel's control word whose enable bit equals the
\* channel's enabled flag leaves the channel's running source, running
\* destination, remaining blocks and transfer state as they were (and with
\* them the address and count registers and every other channel), whether
\* the channel is idle or in mid-transfer.
C5_ControlWriteFrame ==
    [][\A c \in Channels :
         (/\ last'.op = "write_hword"
          /\ last'.chan = c
          /\ dma'[c].enabled = dma[c].enabled)
         => /\ dma'[c].src_addr = dma[c].src_addr
            /\ dma'[c].dst_addr = dma[c].dst_addr
            /\ dma'[c].rem_blocks = dma[c].rem_blocks
            /\ dma'[c].state = dma[c].state
            /\ dma'[c].initial_src_addr = dma[c].initial_src_addr
            /\ dma'[c].initial_dst_addr = dma[c].initial_dst_addr
            /\ dma'[c].initial_blocks = dma[c].initial_blocks
            /\ \A o \in Channels \ {c} : dma'[o] = dma[o]]_vars

\* a control word with the enable bit set has just been written to an enabled
\* channel in mid-transfer: the timing mode is the written one and the
\* remaining blocks are not reloaded
C5_Witness ==
    /\ last.op = "write_hword"
    /\ LET chan == dma[last.chan]
       IN  /\ chan.enabled
           /\ chan.state = "Transferring"
           /\ chan.timing_mode = 2
           /\ chan.initial_blocks = 0
           /\ chan.rem_blocks = max_blocks(last.chan) - 3

\* the timing mode an event triggers, and the address a FIFO event asks for
TriggeredMode(event) == IF event = "VBlank" THEN 1 ELSE IF event = "HBlank" THEN 2 ELSE 3
FifoEvents == {"AudioFifoA", "AudioFifoB"}
FifoDst(event) == IF event = "AudioFifoA" THEN <<1024, 160>> ELSE <<1024, 164>>

\* the transition took channel c from Idle to Starting
Started(c) == dma[c].state = "None" /\ dma'[c].state = "StartingTransfer"

\* C9: a notification moves a channel from Idle to Starting exactly when the
\* channel is enabled, Idle and of the event's timing mode (VBlank 1, HBlank
\* 2, audio FIFO 3) and, for an audio FIFO event, is channel 1 or 2 with the
\* FIFO's address (0x0400_00a0 for A, 0x0400_00a4 for B) in its destination
\* register; every other channel keeps its state, addresses and remaining
\* blocks.
C9_Notify ==
    [][last'.op = "notify" =>
         \A c \in Channels :
            LET event   == last'.arg
                matches ==
                  /\ dma[c].enabled
                  /\ dma[c].state = "None"
                  /\ dma[c].timing_mode = TriggeredMode(event)
                  /\ event \in FifoEvents =>
                       c \in 1 .. 2 /\ dma[c].initial_dst_addr = FifoDst(event)
            IN  /\ Started(c) <=> matches
                /\ dma'[c].src_addr = dma[c].src_addr
                /\ dma'[c].dst_addr = dma[c].dst_addr
                /\ ~matches => /\ dma'[c].state = dma[c].state
                               /\ dma'[c].rem_blocks = dma[c].rem_blocks]_vars

\* FIFO B's event has just started a channel whose destination register holds
\* FIFO B's address
C9_Witness ==
    /\ last.op = "notify"
    /\ last.arg = "AudioFifoB"
    /\ \E c \in 1 .. 2 :
         /\ dma[c].state = "StartingTransfer"
         /\ dma[c].timing_mode = 3
         /\ dma[c].initial_dst_addr = <<1024, 164>>

\* C10: an audio FIFO event starts channels 1 and 2 only, with four blocks to
\* move whatever the count register holds; every step for channel 1 or 2 in
\* the special timing mode moves min(remaining, budget) 32-bit words to one
\* fixed destination, whatever width and destination control are configured,
\* and leaves the rest of the four for the next step; a step for any other
\* channel uses the configured width and destination control.
C10_AudioFifoOverride ==
    [][/\ (last'.op = "notify" /\ last'.arg \in FifoEvents) =>
            \A c \in Channels :
               Started(c) => c \in 1 .. 2 /\ dma'[c].rem_blocks = 4
       /\ last'.op = "step" =>
            LET c    == last'.chan
                pre  == dma[c]
                left == left_after(pre, last'.arg)
            IN  IF c \in 1 .. 2 /\ pre.timing_mode = 3
                THEN /\ effect'.chan = c
                     /\ effect'.blocks = pre.rem_blocks - left
                     /\ effect'.transfer_word
                     /\ effect'.stride = 4
                     /\ effect'.dst_addr_ctrl = 2
                     /\ effect'.dst_addr = pre.dst_addr
                     /\ dma'[c].dst_addr =
                          IF left = 0 /\ pre.repeat /\ pre.dst_addr_ctrl = 3
                          THEN pre.initial_dst_addr ELSE pre.dst_addr
                     /\ left > 0 => dma'[c].rem_blocks = left
                ELSE /\ effect'.transfer_word = pre.transfer_word
                     /\ effect'.dst_addr_ctrl = pre.dst_addr_ctrl]_vars

\* the second step of a FIFO transfer has just moved the fourth word of a
\* channel configured for 5 half-words and an incrementing destination
C10_Witness ==
    /\ last.op = "step"
    /\ last.chan \in 1 .. 2
    /\ LET chan == dma[last.chan]
       IN  /\ chan.timing_mode = 3
           /\ chan.initial_blocks = 5
           /\ ~chan.transfer_word
           /\ chan.dst_addr_ctrl = 0
           /\ chan.state = "None"
           /\ chan.src_addr = <<0, 16>>
           /\ chan.dst_addr = chan.initial_dst_addr
           /\ effect.blocks = 1
           /\ effect.transfer_word
           /\ effect.dst_addr_ctrl = 2
           /\ effect.dst_addr = chan.initial_dst_addr

----------------------------------------------------------------------------
(* Properties of the host step, checked under SpecGba.                     *)

\* the host step that has just happened moved data by DMA
DmaMoved == last'.op = "gba_step" /\ effect'.chan # NoChan /\ effect'.blocks > 0

\* C1, as stated: in no host step are both a CPU instruction executed and a
\* DMA transfer effect applied to the bus.
C1_Original == [][~(cpuRan' /\ DmaMoved)]_vars

\* C1, amended: when DMA moves data in a host step in which the CPU executed
\* an instruction, every channel was Idle at the start of the step and the
\* channel serviced was started within the step: with immediate timing by the
\* instruction itself, a store to that channel's registers that enables it,
\* and with any other timing by the notification of the step's video sub-step.
C1_CpuThenDma ==
    [][(cpuRan' /\ DmaMoved) =>
         LET c      == effect'.chan
             instr  == last'.arg.instr
             vevent == last'.arg.vevent
         IN  /\ \A k \in Channels : dma[k].state = "None"
             /\ effect'.blocks <= 3
             /\ dma'[c].timing_mode = 0 =>
                  /\ instr.kind \in {"dma_byte", "dma_word"}
                  /\ instr.chan = c
                  /\ ~dma[c].enabled
             /\ dma'[c].timing_mode # 0 =>
                  /\ vevent # "None"
                  /\ dma'[c].timing_mode = TriggeredMode(vevent)]_vars

\* the CPU has just enabled an immediate channel and the same host step moved
\* the channel's first three units
C1_Witness ==
    /\ last.op = "gba_step"
    /\ cpuRan
    /\ effect.chan # NoChan
    /\ effect.blocks = 3
    /\ last.arg.instr.kind = "dma_byte"
    /\ last.arg.instr.chan = effect.chan
    /\ dma[effect.chan].state = "Transferring"
    /\ dma[effect.chan].rem_blocks = max_blocks(effect.chan) - 3

\* C2: in a host step at whose start some channel's transfer state is not
\* Idle, the CPU executes no instruction.
C2_DmaSuspendsCpu ==
    [][(last'.op = "gba_step" /\ \E c \in Channels : dma[c].state # "None")
         => ~cpuRan']_vars

\* a host step that began in mid-transfer with the halt state Running has just
\* moved three more units and executed no instruction
C2_Witness ==
    /\ last.op = "gba_step"
    /\ ~cpuRan
    /\ haltcnt = "Running"
    /\ effect.chan # NoChan
    /\ effect.blocks = 3
    /\ dma[effect.chan].state = "Transferring"
    /\ dma[effect.chan].rem_blocks = max_blocks(effect.chan) - 6

----------------------------------------------------------------------------
(* Properties of whole transfers.                                          *)

\* the 16 bytes at the destination equal the 16 bytes at the source
Copied == \A i \in 0 .. WindowHwords - 1 : mem[<<"iwram", i>>] = mem[<<"ewram", i>>]

\* C11: with channel 3 set up for 4 words from 0x0200_0000 to 0x0300_0000,
\* incrementing, immediate and enabled, repeated host steps eventually reach
\* a state where internal work RAM at the destination holds the 16 bytes of
\* the source, the channel's enable bit reads 0 and, if IRQ on completion was
\* set, Dma3 has been requested.
C11_Drain ==
    <>(/\ Copied
       /\ ~Bit(read_byte(dma, Dma3Regs + 11), 7)
       /\ ~dma[3].enabled
       /\ dma[3].irq_enabled => "Dma3" \in irq.requested)

\* the second host step has just moved the last word: the data are copied,
\* the channel is disabled and Idle and Dma3 is requested
C11_Witness ==
    /\ nsteps = 2
    /\ Copied
    /\ mem[<<"ewram", 0>>] # mem[<<"ewram", 2>>]
    /\ mem[<<"iwram", 7>>] # 0
    /\ ~dma[3].enabled
    /\ dma[3].state = "None"
    /\ dma[3].irq_enabled
    /\ "Dma3" \in irq.requested
    /\ effect.chan = 3 /\ effect.blocks = 1

\* channel 0 has moved all eight units of its transfer and is Idle again
EightMoved ==
    /\ last.op = "step"
    /\ last.chan = 0
    /\ dma[0].state = "None"
    /\ dma[0].src_addr = <<0, 8 * effect.stride>>

\* C12: for channel 0 with hblank timing, count 8 and enabled, no step
\* produces a transfer effect before an HBlank notification has started the
\* channel (nothing else starts it); the first step after the notification
\* produces a transfer effect for channel 0; and under continued notifications
\* and steps all eight blocks are eventually moved and the channel is Idle.
C12_HblankTransfer ==
    /\ [][/\ last'.op = "step" => dma[0].state # "None" /\ effect'.chan = 0
          /\ Started(0) => last'.op = "notify" /\ last'.arg = "HBlank"
          /\ (last.op = "notify" /\ last.arg = "HBlank" /\ last'.op = "step")
               => effect'.chan = 0 /\ effect'.blocks > 0]_vars
    /\ <>EightMoved

\* the third step after the notification has just moved the last two units
C12_Witness ==
    /\ EightMoved
    /\ nsteps = 3
    /\ effect.chan = 0
    /\ effect.blocks = 2
    /\ dma[0].initial_blocks = 8
    /\ dma[0].timing_mode = 2

----------------------------------------------------------------------------
(* Properties of the DMA registers, checked under SpecRegs.                *)

\* the address <<hi, lo>> is below 2^width (width >= 16)
Below(addr, width) == addr[1] < 2 ^ (width - 16)

\* the width of a channel's address registers
AddrWidth(c) == IF c = 0 THEN 27 ELSE 28

\* C13: after any sequence of byte writes to the source and destination
\* registers, channel 0's initial source and destination addresses are below
\* 2^27 and those of channels 1-3 below 2^28: bits written above that width
\* are discarded.
C13_AddressWidth ==
    \A c \in Channels :
        /\ Below(dma[c].initial_src_addr, AddrWidth(c))
        /\ Below(dma[c].initial_dst_addr, AddrWidth(c))

\* 0xff has been written to the top byte of the source of channel 0 and of
\* the destination of another channel: 3 and 4 of its bits are kept
C13_Witness ==
    /\ dma[0].initial_src_addr[1] \div 256 = 7
    /\ \E c \in 1 .. 3 : dma[c].initial_dst_addr[1] \div 256 = 15

\* the byte the program reads at a channel's register offset
Reads(d, c, offset) == read_byte(d, DmaRegBase + 12 * c + offset)

\* C14: a read of a channel's control register returns the control bits last
\* written, with bit 15 (bit 7 of the high byte) equal to the channel's
\* enabled flag, so 0 once a transfer without repeat has completed and 1
\* while the channel is enabled; a read of a source, destination or count
\* byte returns 0 whatever was written.  (The bits last written: the read
\* that follows a write returns them, and no step, notification, read or
\* write elsewhere changes what the register reads, the enable bit apart.)
C14_ControlRead ==
    [][/\ last'.op = "read_byte" =>
            LET c == last'.chan
                offset == last'.arg
                wrote == last.op = "write_byte" /\ last.chan = c /\ last.arg = offset
            IN  /\ offset < 10 => last'.value = 0
                /\ offset = 10 /\ wrote => last'.value = last.value
                /\ offset = 11 => Bit(last'.value, 7) = dma[c].enabled
                /\ offset = 11 /\ wrote => last'.value % 128 = last.value % 128
                /\ (offset = 11 /\ last.op = "step" /\ last.chan = c
                      /\ dma[c].state = "None" /\ ~dma[c].repeat)
                     => ~Bit(last'.value, 7)
       /\ \A c \in Channels :
            (last'.op = "write_byte" /\ last'.chan = c /\ last'.arg \in 10 .. 11)
            \/ /\ Reads(dma', c, 10) = Reads(dma, c, 10)
               /\ Reads(dma', c, 11) % 128 = Reads(dma, c, 11) % 128]_vars

\* the control register's high byte has just been read after a transfer
\* without repeat completed: the enable bit written as 1 reads 0
C14_Witness ==
    /\ last.op = "read_byte"
    /\ last.arg = 11
    /\ last.value = 0
    /\ dma[last.chan].cached_dmacnt_hi_bits = 32768
    /\ dma[last.chan].initial_blocks = 1
    /\ dma[last.chan].state = "None"
    /\ nsteps = 1

----------------------------------------------------------------------------
(* Properties of the host step with memory and interrupts, checked under   *)
(* SpecHost.                                                               *)

\* the registers the CPU's stores reach, as the model keeps them
CpuVisible(d, q) ==
    <<[c \in Channels |-> <<d[c].cached_dmacnt_hi_bits, d[c].initial_blocks>>],
      q.enabled>>

\* C15: a host step that begins Halted executes no CPU instruction but still
\* steps video, timers and DMA (the step's notification is delivered, the
\* DMA sub-step runs and its effect is applied); a host step that begins
\* Stopped executes no CPU instruction and steps none of them: there is no
\* DMA effect and no channel changes state.
C15_HaltStates ==
    [][last'.op = "host_step" =>
         /\ haltcnt # "Running" =>
              /\ ~cpuRan'
              /\ CpuVisible(dma', irq') = CpuVisible(dma, irq)
              /\ haltcnt' \in {haltcnt, "Running"}
         /\ haltcnt = "Halted" =>
              \E r \in {step(video_step(dma, last'.arg.vevent), 3)} :
                  /\ dma' = r.dma
                  /\ effect' = r.effect
                  /\ irqReq' = r.irq
                  /\ mem' = apply_effect(mem, r.effect)
         /\ haltcnt = "Stopped" =>
              /\ dma' = dma
              /\ effect' = NoEffect
              /\ irqReq' = {}
              /\ mem' = mem
              /\ irq'.requested \subseteq irq.requested \cup {"Keypad"}]_vars

\* a step that began and ended Halted: the CPU did not run, video's VBlank
\* started channel 0 and the DMA sub-step moved its units
C15_Witness ==
    /\ last.op = "host_step"
    /\ haltcnt = "Halted"
    /\ ~cpuRan
    /\ last.arg.vevent = "VBlank"
    /\ effect.chan = 0
    /\ effect.blocks = 2

----------------------------------------------------------------------------
(* Properties of the halt control register, checked under SpecHalt.        *)

\* C16: a byte write to the halt control register sets the halt state to
\* Stopped when bit 7 of the value is set and to Halted when it is clear,
\* whatever the state was before; no written value leaves or makes the state
\* Running; a read returns 0 and changes nothing.
C16_HaltControl ==
    [][/\ last'.op = "halt_write" =>
            /\ last'.value \div 128 = 1 => haltcnt' = "Stopped"
            /\ last'.value \div 128 = 0 => haltcnt' = "Halted"
            /\ haltcnt' # "Running"
       /\ last'.op = "halt_read" =>
            /\ last'.value = 0
            /\ UNCHANGED <<dma, effect, irqReq, haltcnt, cpuRan, machine>>]_vars

\* 0x7f written while Stopped: every bit but bit 7 set, the state is Halted
C16_Witness ==
    /\ last.op = "halt_write"
    /\ last.arg = "Stopped"
    /\ last.value = 127
    /\ haltcnt = "Halted"

\* C18: within one host step the order is keypad, CPU, video, timers, DMA
\* sub-step with its effect applied right after, interrupt delivery.  The
\* keypad's request is there for the CPU's acknowledgement to clear; a
\* channel the CPU's store enables is started by video's notification and
\* moved by the DMA sub-step of the same step, and memory holds the effect;
\* the interrupt delivery that ends the step sees the requests video and
\* DMA made in it, and wakes the machine on them.
C18_StepOrder ==
    [][last'.op = "host_step" =>
         LET instr == last'.arg.instr
         IN  /\ (last'.arg.keypad /\ instr.kind = "irq_ack"
                   /\ "Keypad" \in instr.sources)
                  => "Keypad" \notin irq'.requested
             /\ (instr \in HostDmaStores /\ last'.arg.vevent = "VBlank")
                  => /\ effect'.chan = 0
                     /\ effect'.blocks = 2
                     /\ dma'[0].state = "None"
             /\ mem' = apply_effect(mem, effect')
             /\ \A c \in irqReq' : dma_interrupt(c) \in irq'.requested
             /\ pending(irq') => haltcnt' = "Running"]_vars

\* the step in which the CPU wrote HALTCNT, video's VBlank started channel 0,
\* the DMA sub-step completed it and requested Dma0, and the interrupt
\* delivery, Dma0 being enabled, returned the machine to Running
C18_Witness ==
    /\ last.op = "host_step"
    /\ last.arg.instr \in HaltStores
    /\ last.arg.vevent = "VBlank"
    /\ effect.chan = 0
    /\ irqReq = {0}
    /\ irq.enabled = {"Dma0"}
    /\ irq.requested = {"Dma0"}
    /\ haltcnt = "Running"

----------------------------------------------------------------------------
(* Properties of halting and waking, checked under SpecWake.               *)

\* C17: from Halted or Stopped, whenever some source is both enabled and
\* requested at the interrupt evaluation that ends a host step, the halt
\* state is Running after that step; the halt state never returns to
\* Running while no enabled source is requested; and a machine Halted with
\* VBlank enabled eventually runs again, video being stepped while Halted.
C17_WakeUp ==
    /\ [][last'.op = "host_step" /\ haltcnt # "Running" =>
            /\ pending(irq') => haltcnt' = "Running"
            /\ irq'.enabled \cap irq'.requested = {} => haltcnt' = haltcnt]_vars
    /\ (haltcnt = "Halted" /\ "VBlank" \in irq.enabled) ~> (haltcnt = "Running")

\* a step that began Halted or Stopped, in which the CPU and video did
\* nothing and the keypad requested its enabled interrupt, has ended Running
C17_Witness ==
    /\ last.op = "host_step"
    /\ ~cpuRan
    /\ last.arg.vevent = "None"
    /\ last.arg.keypad
    /\ irq.enabled = {"Keypad"}
    /\ "Keypad" \in irq.requested
    /\ haltcnt = "Running"

----------------------------------------------------------------------------
(* Properties of the register file, checked under SpecMode.                *)

\* C19: a change_mode between two modes that share a bank index (User and
\* System, or any mode and itself) performs no banking: only the CPSR mode
\* field changes; the sixteen general registers, the SPSR, the six banks
\* and the hidden FIQ bank are as before.
C19_SameBank ==
    [][(last'.op = "change_mode"
          /\ bank_index(reg.cpsr.mode) = bank_index(last'.arg))
        => /\ reg'.cpsr = [reg.cpsr EXCEPT !.mode = last'.arg]
           /\ reg'.r = reg.r
           /\ reg'.spsr = reg.spsr
           /\ reg'.banks = reg.banks
           /\ reg'.fiq_r8_12_bank = reg.fiq_r8_12_bank]_vars

\* System mode has just been entered from User mode (the bank of the two
\* modes holds what an earlier mode left there, not the registers written
\* since)
C19_Witness ==
    /\ last.op = "change_mode"
    /\ last.from = "User"
    /\ reg.cpsr.mode = "System"
    /\ nsteps >= 2
    /\ reg.r[SP_INDEX] = 1
    /\ reg.banks[0].sp # 1
    /\ reg.spsr.zero # reg.banks[0].spsr.zero

\* C20: for every mode m but FIQ, after change_mode(FastInterrupt) from m,
\* any writes to the registers while in FIQ and change_mode(m), r8-r12, SP
\* and LR are what they were when FIQ was entered, the hidden FIQ bank holds
\* the r8-r12 and the FIQ bank slot the SP and LR that were current when FIQ
\* was left.
C20_FiqRoundTrip ==
    [][(last'.op = "change_mode" /\ reg.cpsr.mode = "FastInterrupt"
          /\ last'.arg = entry.cpsr.mode)
        => /\ \A i \in 8 .. 14 : reg'.r[i] = entry.r[i]
           /\ \A i \in 0 .. 4 : reg'.fiq_r8_12_bank[i] = reg.r[8 + i]
           /\ reg'.banks[bank_index("FastInterrupt")].sp = reg.r[SP_INDEX]
           /\ reg'.banks[bank_index("FastInterrupt")].lr = reg.r[LR_INDEX]]_vars

\* FIQ was entered from Abort mode with the registers filled, r8 and SP were
\* written in FIQ, and Abort mode has been entered again
C20_Witness ==
    /\ last.op = "change_mode"
    /\ last.from = "FastInterrupt"
    /\ reg.cpsr.mode = "Abort"
    /\ entry.cpsr.mode = "Abort"
    /\ entry.r[8] = 3
    /\ reg.fiq_r8_12_bank[0] = 1
    /\ reg.banks[1].sp = 1
    /\ reg.r[8] = 3
    /\ reg.r[SP_INDEX] = 3

\* C21: in every sequence of change_mode calls and register writes, a switch
\* that changes the bank stores the departing mode's SP, LR and SPSR in its
\* bank and then loads the incoming mode's: on entering a mode the SP, LR
\* and SPSR are those that were current when a mode of the same bank was
\* last left (the initial ones if it never was), the departing mode's bank
\* holds what was current at the switch, and after every call the CPSR mode
\* field is the requested mode.
C21_Banking ==
    [][last'.op = "change_mode" =>
         /\ reg'.cpsr.mode = last'.arg
         /\ bank_index(reg.cpsr.mode) # bank_index(last'.arg) =>
              /\ reg'.r[SP_INDEX] = lastLeft[bank_index(last'.arg)].sp
              /\ reg'.r[LR_INDEX] = lastLeft[bank_index(last'.arg)].lr
              /\ reg'.spsr = lastLeft[bank_index(last'.arg)].spsr
              /\ reg'.banks[bank_index(reg.cpsr.mode)] =
                   [sp |-> reg.r[SP_INDEX], lr |-> reg.r[LR_INDEX],
                    spsr |-> reg.spsr]]_vars

\* Interrupt mode has been entered again: it was left with SP written and
\* the SPSR's zero flag set, the mode in between was left with another SP
C21_Witness ==
    /\ last.op = "change_mode"
    /\ last.from # "Interrupt"
    /\ reg.cpsr.mode = "Interrupt"
    /\ reg.r[SP_INDEX] = 1
    /\ reg.spsr.zero
    /\ lastLeft[bank_index("Interrupt")].sp = 1
    /\ lastLeft[bank_index(last.from)].sp # 1
    /\ nsteps = 4

----------------------------------------------------------------------------
(* Properties of the status register, checked under SpecPsr.               *)

ModeCodes == {16, 17, 18, 19, 23, 27, 31}

\* the writable bits of a status word: flags 31..28 and bits 7..0
Writable(bits) == <<bits[1] \div 4096, bits[2] % 256>>

\* the reserved bits of a status word: bits 27..8
Reserved(bits) == <<bits[1] % 4096, bits[2] \div 256>>

\* C22 as stated: for every word W whose mode field is one of the seven
\* codes, the full CPSR write of W followed by bits() reproduces W in the
\* flags (bits 31..28), the IRQ and FIQ disable bits (7, 6), the state bit
\* (5) and the mode bits (4..0), and the reserved bits read as they did
\* before.
C22_Original ==
    [][(last'.op = "write_cpsr" /\ last'.arg[2] % 32 \in ModeCodes)
        => /\ Writable(status_bits(reg'.cpsr)) = Writable(last'.arg)
           /\ Reserved(status_bits(reg'.cpsr)) = Reserved(status_bits(reg.cpsr))]_vars

\* bit 5 of a status word
StateBit(bits) == (bits[2] \div 32) % 2

\* C22 amended: the full CPSR write of such a W followed by bits()
\* reproduces W in the flags, the IRQ and FIQ disable bits and the mode
\* bits; the state bit is not written and reads as it did before the
\* write, and so do the reserved bits.
C22_CpsrRoundTrip ==
    [][(last'.op = "write_cpsr" /\ last'.arg[2] % 32 \in ModeCodes)
        => LET read == status_bits(reg'.cpsr)
           IN  /\ read[1] \div 4096 = last'.arg[1] \div 4096
               /\ read[2] \div 64 = (last'.arg[2] % 256) \div 64
               /\ read[2] % 32 = last'.arg[2] % 32
               /\ StateBit(read) = StateBit(status_bits(reg.cpsr))
               /\ Reserved(read) = Reserved(status_bits(reg.cpsr))]_vars

\* 0xa000_0030 (flags N and C, state bit set, User) has been written to a
\* CPSR in ARM state: the flags and the mode are W's, the state is ARM
C22_Witness ==
    /\ last.op = "write_cpsr"
    /\ last.arg = <<40960, 32 + 16>>
    /\ status_bits(reg.cpsr) = <<40960, 16>>
    /\ reg.cpsr.state = "Arm"

\* C23: a status-control write returns an error exactly when the low five
\* bits of the word are none of the seven mode codes; otherwise it returns
\* the mode of that code and the register's mode field is that mode; no bit
\* above bit 4 has a part in it.
C23_ControlWrite ==
    [][last'.op = "set_control" =>
         LET code == last'.arg[2] % 32
         IN  /\ last'.value = "Err" <=> code \notin ModeCodes
             /\ last'.value # "Err" =>
                  /\ last'.value \in OperationModes
                  /\ mode_bits(last'.value) = code
                  /\ reg'.cpsr.mode = last'.value]_vars

\* a control write of 0xffff_fffb (every bit above bit 4 set, code 0b11011)
\* in Supervisor mode has returned UndefinedInstr
C23_Witness ==
    /\ last.op = "set_control"
    /\ last.arg = <<65535, 65280 + 224 + 27>>
    /\ last.value = "UndefinedInstr"
    /\ reg.cpsr.mode = "UndefinedInstr"

----------------------------------------------------------------------------
(* Properties of the bus router, checked under SpecBus.                    *)

\* an address outside the regions of the memory map
Unmapped(addr) ==
    \/ addr[1] = 0 /\ addr[2] >= 16384
    \/ addr[1] \in 1 .. 511
    \/ addr[1] = 1024 /\ addr[2] >= 1023
    \/ addr[1] \in 1025 .. 1279
    \/ addr[1] >= 3585

\* everything a bus access could change
BusState == <<mem, dma, haltcnt, irq, reg>>

\* C24: at every address outside the mapped regions a byte read returns
\* 0xff after any writes (those to the same address included), and a byte
\* write there is handed to no collaborator and changes no state.
C24_Unmapped ==
    [][/\ (last'.op = "bus_read_byte" /\ Unmapped(last'.arg)) => last'.value = 255
       /\ (last'.op = "bus_write_byte" /\ Unmapped(last'.arg))
            => last'.handed = <<>> /\ UNCHANGED BusState]_vars

\* 0x5a was written to 0x0400_03ff, just above the I/O registers, and the
\* read of that address returns 0xff
C24_Witness ==
    /\ last.op = "bus_read_byte"
    /\ last.arg = <<1024, 1023>>
    /\ last.value = 255
    /\ nsteps = 2

\* the half-word of work RAM an address falls in: external work RAM repeats
\* every 2^18 bytes, internal work RAM every 2^15
WramHword(addr) ==
    IF addr[1] \in 512 .. 767
    THEN <<"ewram", ((addr[1] % 4) * 65536 + addr[2]) \div 2>>
    ELSE <<"iwram", (addr[2] % 32768) \div 2>>

\* C25: for a word W and a word-aligned address A of external or internal
\* work RAM, the word read at A or at any mirror of A after W was written at
\* A returns W; the write stores W's two half-words at A and changes no
\* byte outside the four addressed ones.
C25_WramWord ==
    [][/\ (last.op = "bus_write_word" /\ last'.op = "bus_read_word"
             /\ WramHword(last'.arg) = WramHword(last.arg))
            => last'.value = last.value
       /\ last'.op = "bus_write_word" =>
            LET low == WramHword(last'.arg)
                high == <<low[1], low[2] + 1>>
            IN  /\ low \in MemKeys /\ high \in MemKeys
                /\ mem'[low] = last'.value[2]
                /\ mem'[high] = last'.value[1]
                /\ \A k \in MemKeys \ {low, high} : mem'[k] = mem[k]
                /\ UNCHANGED <<dma, haltcnt, irq, reg>>]_vars

\* 0x1234_5678 was written at 0x0200_0000 and has just been read at the
\* mirror 0x02fc_0000, and the next word of external work RAM is untouched
C25_Witness ==
    /\ last.op = "bus_read_word"
    /\ last.arg = <<764, 0>>
    /\ last.value = <<4660, 22136>>
    /\ nsteps = 2
    /\ mem[<<"ewram", 2>>] = 0

\* the video memory of an address in 0x0500_0000..=0x07ff_ffff
VideoMemory(addr) ==
    CASE addr[1] \in 1280 .. 1535 -> "palette_ram"
      [] addr[1] \in 1536 .. 1791 -> "vram"
      [] addr[1] \in 1792 .. 2047 -> "oam"

\* C26: a byte write to an OAM address is handed to no collaborator and
\* changes no state; a half-word write to palette RAM, VRAM or OAM is handed
\* to that memory as one half-word store of the value, never as byte writes.
C26_VideoMemoryWrites ==
    [][/\ (last'.op = "bus_write_byte" /\ last'.arg[1] \in 1792 .. 2047)
            => last'.handed = <<>> /\ UNCHANGED BusState
       /\ (last'.op = "bus_write_hword" /\ last'.arg[1] \in 1280 .. 2047)
            => /\ Len(last'.handed) = 1
               /\ last'.handed[1].op = "write_hword"
               /\ last'.handed[1].to = VideoMemory(last'.arg)
               /\ last'.handed[1].value = last'.value
               /\ UNCHANGED BusState]_vars

\* 0xa55a has been written as a half-word at 0x0700_0002 after a byte write:
\* OAM was handed the one half-word store
C26_Witness ==
    /\ last.op = "bus_write_hword"
    /\ last.arg = <<1792, 2>>
    /\ last.handed = <<[to |-> "oam", op |-> "write_hword", addr |-> 2,
                        value |-> 42330]>>
    /\ nsteps = 2

\* an I/O address within 0x0400_0000..=0x0400_03fe of no implemented block
Unimplemented(addr) ==
    /\ addr[1] = 1024
    /\ addr[2] <= 1022
    /\ addr[2] \notin (0 .. 86) \cup (176 .. 223) \cup (256 .. 271) \cup (304 .. 307)
                       \cup (512 .. 515) \cup (520 .. 523) \cup {769}

\* the byte the catch-all buffer holds for an I/O address
Buffered(m, addr) ==
    (m[<<"io_todo", addr[2] \div 2>>] \div (IF addr[2] % 2 = 1 THEN 256 ELSE 1)) % 256

\* the state of the implemented registers and of work RAM
Implemented ==
    <<dma, haltcnt, irq, [k \in {j \in MemKeys : j[1] # "io_todo"} |-> mem[k]]>>

\* C27 as stated: a byte read at an I/O offset of no implemented register
\* block returns zero, and a byte write of any value there changes no
\* implemented register's state.
C27_Original ==
    [][/\ (last'.op = "bus_read_byte" /\ Unimplemented(last'.arg)) => last'.value = 0
       /\ (last'.op = "bus_write_byte" /\ Unimplemented(last'.arg))
            => UNCHANGED Implemented]_vars

\* C27 amended: a byte read at such an offset returns what the catch-all
\* buffer holds there, the byte last written at the offset and zero if none
\* was; a byte write of any value is stored in the buffer and changes no
\* implemented register's state.
C27_UnimplementedIo ==
    [][/\ (last'.op = "bus_read_byte" /\ Unimplemented(last'.arg))
            => /\ last'.value = Buffered(mem, last'.arg)
               /\ (last.op = "bus_write_byte" /\ last.arg = last'.arg)
                    => last'.value = last.value
       /\ (last'.op = "bus_write_byte" /\ Unimplemented(last'.arg))
            => /\ Buffered(mem', last'.arg) = last'.value
               /\ UNCHANGED Implemented
       /\ (last'.op \notin {"bus_write_byte", "bus_write_hword"})
            => \A k \in MemKeys : k[1] = "io_todo" => mem'[k] = mem[k]]_vars

\* 0x5a was written at 0x0400_0204, between the two IRQ register blocks,
\* and the read of that address returns it
C27_Witness ==
    /\ last.op = "bus_read_byte"
    /\ last.arg = <<1024, 516>>
    /\ last.value = 90
    /\ Buffered(mem, last.arg) = 90

\* the half-words of internal work RAM within its top 512 bytes
IwramTop == {k \in MemKeys : k[1] = "iwram" /\ k[2] >= 32256 \div 2}

\* C28: reset(skip_bios = true) zeroes the top 512 bytes of internal work
\* RAM (offsets 0x7e00..=0x7fff) and leaves every other byte of it as it
\* was; reset(skip_bios = false) leaves all of internal work RAM as it was.
C28_ResetIwram ==
    [][last'.op = "reset" =>
         \A k \in MemKeys :
             k[1] = "iwram" =>
                 mem'[k] = IF last'.arg /\ k \in IwramTop THEN 0 ELSE mem[k]]_vars

\* reset(true) after writes at 0x7dff and 0x7e00: the half-word at 0x7e00
\* was not zero and is zero, the one at 0x7dfe is as written
C28_Witness ==
    /\ last.op = "reset"
    /\ last.arg
    /\ last.value # 0
    /\ mem[<<"iwram", 16128>>] = 0
    /\ mem[<<"iwram", 16127>>] # 0

----------------------------------------------------------------------------
(* Properties of the Thumb decoder, checked under SpecDecode.              *)

\* the arms an instruction matches that compare the most bits
MostSpecific(instr) ==
    {i \in matching_arms(instr) :
        \A j \in matching_arms(instr) : ThumbArms[j][1] <= ThumbArms[i][1]}

\* C29: every 16-bit Thumb encoding is dispatched to exactly one handler,
\* the most specific pattern it matches: a high byte of 10110000 goes to
\* add-offset-to-SP and not push/pop, a high byte of 11011111 to the
\* software interrupt and not the conditional branch, high six bits 010000
\* and 010001 to the ALU and the hi-register operations, high five bits
\* 00011 to add/subtract and not move-shifted-register; and the handler has
\* an arm for the sub-opcode of every encoding it is given.
C29_Dispatch ==
    last.op = "execute_thumb" =>
        LET instr == last.arg
        IN  /\ IF matching_arms(instr) = {}
               THEN last.value = "UndefinedInstr"
               ELSE /\ Cardinality(MostSpecific(instr)) = 1
                    /\ \A i \in MostSpecific(instr) : last.value = ThumbArms[i][3]
            /\ Bits(instr, 8, 16) = 176 => last.value = "thumb13"
            /\ Bits(instr, 8, 16) = 223 => last.value = "SoftwareInterrupt"
            /\ Bits(instr, 10, 16) = 16 => last.value = "thumb4"
            /\ Bits(instr, 10, 16) = 17 => last.value = "thumb5"
            /\ Bits(instr, 11, 16) = 3 => last.value = "thumb2"
            /\ last.sub \in sub_opcodes(last.value)

\* 0xb0ff, which also matches push/pop, dispatched to add-offset-to-SP
C29_Witness ==
    /\ last.op = "execute_thumb"
    /\ last.arg = 45311
    /\ Cardinality(matching_arms(last.arg)) = 2
    /\ last.value = "thumb13"

----------------------------------------------------------------------------
(* Properties of Thumb execution, checked under SpecThumb.                 *)

\* C30: a Thumb instruction that matches no format, which is exactly one
\* whose bits 15..11 are 11101, enters the UndefinedInstr exception:
\* afterwards the PC is the vector 0x04 plus the 8-byte pipeline advance,
\* IRQ is disabled, and LR is r15 as it was when the instruction executed
\* less 4.
C30_UndefinedInstr ==
    [][last'.op = "execute_thumb" =>
         /\ last'.value = "UndefinedInstr" <=> Bits(last'.arg, 11, 16) = 29
         /\ Bits(last'.arg, 11, 16) = 29 =>
               /\ reg'.cpsr.mode = "UndefinedInstr"
               /\ reg'.r[PC_INDEX] = <<0, 4 + 8>>
               /\ reg'.cpsr.irq_disabled
               /\ reg'.r[LR_INDEX] = WrappingSub(reg.r[PC_INDEX], 4)]_vars

\* 0xeaaa executed with r15 = 200, from User mode
C30_Witness ==
    /\ last.op = "execute_thumb"
    /\ last.arg = 60074
    /\ reg.spsr.mode = "User"
    /\ reg.cpsr.mode = "UndefinedInstr"
    /\ reg.cpsr.irq_disabled
    /\ reg.r[LR_INDEX] = <<0, 196>>
    /\ reg.r[PC_INDEX] = <<0, 12>>

\* SWI 0x42 executed in Thumb state with r15 = 0x2000
Swi42 == last'.op = "execute_thumb" /\ last'.arg = 57154 /\ reg.r[PC_INDEX] = <<0, 8192>>

\* C31 as stated: executing 0xdf42 in Thumb state with r15 = 0x2000 leaves
\* the CPU in Supervisor mode and ARM state with IRQ disabled,
\* LR = 0x2000 - 2, the CPSR from before in the SPSR, and PC = 0x10.
C31_Original ==
    [][Swi42 =>
         /\ reg'.cpsr.mode = "Supervisor"
         /\ reg'.cpsr.state = "Arm"
         /\ reg'.cpsr.irq_disabled
         /\ reg'.r[LR_INDEX] = <<0, 8192 - 2>>
         /\ reg'.spsr = reg.cpsr
         /\ reg'.r[PC_INDEX] = <<0, 16>>]_vars

\* C31 amended: executing 0xdf42 in Thumb state with r15 = 0x2000 leaves the
\* CPU in Supervisor mode and ARM state with IRQ disabled, LR = 0x2000 - 4,
\* the CPSR from before in the SPSR, and PC = 0x10.
C31_SoftwareInterrupt ==
    [][Swi42 =>
         /\ reg'.cpsr.mode = "Supervisor"
         /\ reg'.cpsr.state = "Arm"
         /\ reg'.cpsr.irq_disabled
         /\ reg'.r[LR_INDEX] = <<0, 8192 - 4>>
         /\ reg'.spsr = reg.cpsr
         /\ reg'.r[PC_INDEX] = <<0, 16>>]_vars

\* 0xdf42 executed from User mode with r15 = 0x2000
C31_Witness ==
    /\ last.op = "execute_thumb"
    /\ last.arg = 57154
    /\ reg.cpsr.mode = "Supervisor"
    /\ reg.cpsr.state = "Arm"
    /\ reg.spsr.mode = "User"
    /\ reg.spsr.state = "Thumb"
    /\ reg.r[LR_INDEX] = <<0, 8188>>
    /\ reg.r[PC_INDEX] = <<0, 16>>

----------------------------------------------------------------------------
(* Properties of the Thumb operations, checked under SpecOps.              *)

\* the four condition flags of a status register
Flags(psr) == <<psr.signed, psr.zero, psr.carry, psr.overflow>>

\* a 32-bit word as a signed number's high half
SignedHigh(w) == IF w[1] >= 32768 THEN w[1] - Half ELSE w[1]

\* a < b, unsigned and signed
Below32(a, b) == a[1] < b[1] \/ (a[1] = b[1] /\ a[2] < b[2])

SignedBelow32(a, b) ==
    SignedHigh(a) < SignedHigh(b) \/ (a[1] = b[1] /\ a[2] < b[2])

\* C32: a hi-register ADD or MOV, a get-relative-address and an
\* add-offset-to-SP leave the four condition flags as they were, whatever the
\* operands and the flags before; a hi-register CMP sets the flags from
\* Rd - Rs and writes no register.
C32_FlagFrame ==
    [][last'.op = "execute_thumb" =>
         LET instr == last'.arg
             op == Bits(instr, 8, 10)
             rd == reg.r[Bits(instr, 0, 3) + (IF Bit(instr, 7) THEN 8 ELSE 0)]
             rs == reg.r[Bits(instr, 3, 6) + (IF Bit(instr, 6) THEN 8 ELSE 0)]
         IN  /\ (last'.value = "thumb5" /\ op \in {0, 2})
                   => Flags(reg'.cpsr) = Flags(reg.cpsr)
             /\ last'.value \in {"thumb12", "thumb13"}
                   => Flags(reg'.cpsr) = Flags(reg.cpsr)
             /\ (last'.value = "thumb5" /\ op = 1)
                   => /\ reg'.r = reg.r
                      /\ reg'.cpsr.zero = (rd = rs)
                      /\ reg'.cpsr.carry = ~Below32(rd, rs)
                      /\ (reg'.cpsr.signed # reg'.cpsr.overflow) = SignedBelow32(rd, rs)]_vars

\* ADD r8, r6 executed first with every flag clear: 0x8000_0000 plus
\* 0xffff_ffff is 0x7fff_ffff, and neither carry nor overflow is set
C32_Witness ==
    /\ last.op = "execute_thumb"
    /\ last.arg = 17584
    /\ nsteps = 1
    /\ reg.r[8] = <<32767, 65535>>
    /\ Flags(reg.cpsr) = <<FALSE, FALSE, FALSE, FALSE>>

\* an instruction executed with r1 = 0b10 and every flag clear
ShiftCase(instr) ==
    /\ last'.op = "execute_thumb"
    /\ last'.arg = instr
    /\ reg.r[1] = <<0, 2>>
    /\ Flags(reg.cpsr) = <<FALSE, FALSE, FALSE, FALSE>>

\* r4 = 0b10_000, r1 = 0b10, carry and zero clear
Shifted ==
    /\ reg'.r[4] = <<0, 16>>
    /\ reg'.r[1] = <<0, 2>>
    /\ ~reg'.cpsr.carry
    /\ ~reg'.cpsr.zero

\* C33 as stated: with r1 = 0b10 and the flags clear, executing 0x000c
\* leaves r4 = 0b10_000, r1 = 0b10, carry = 0 and zero = 0.
C33_Original == [][ShiftCase(12) => Shifted]_vars

\* C33 amended: with r1 = 0b10 and the flags clear, executing 0x00cc, which
\* is LSL r4, r1, #3, leaves r4 = 0b10_000, r1 = 0b10, carry = 0 and zero = 0.
C33_LslImmediate == [][ShiftCase(204) => Shifted]_vars

\* 0x00cc executed first, from clear flags
C33_Witness ==
    /\ last.op = "execute_thumb"
    /\ last.arg = 204
    /\ nsteps = 1
    /\ reg.r[4] = <<0, 16>>
    /\ reg.r[1] = <<0, 2>>
    /\ Flags(reg.cpsr) = <<FALSE, FALSE, FALSE, FALSE>>

\* an instruction executed with r6 = 0xffff_ffff and r7 = 1
AddCase(instr) ==
    /\ last'.op = "execute_thumb"
    /\ last'.arg = instr
    /\ reg.r[6] = <<65535, 65535>>
    /\ reg.r[7] = <<0, 1>>

\* r0 = 0 with zero and carry set and overflow clear, r6 and r7 as before
Wrapped ==
    /\ reg'.r[0] = <<0, 0>>
    /\ reg'.cpsr.zero
    /\ reg'.cpsr.carry
    /\ ~reg'.cpsr.overflow
    /\ reg'.r[6] = reg.r[6]
    /\ reg'.r[7] = reg.r[7]

\* C34 as stated: with r6 = 0xffff_ffff and r7 = 1, executing 0x19b0 leaves
\* r0 = 0 with zero = 1, carry = 1 and overflow = 0, and r6 and r7 unchanged.
C34_Original == [][AddCase(6576) => Wrapped]_vars

\* C34 amended: with r6 = 0xffff_ffff and r7 = 1, executing 0x19f0, which is
\* ADD r0, r6, r7, leaves r0 = 0 with zero = 1, carry = 1 and overflow = 0,
\* and r6 and r7 unchanged.
C34_AddRegister == [][AddCase(6640) => Wrapped]_vars

\* 0x19f0 executed first, from flags that had zero and carry clear and
\* overflow set
C34_Witness ==
    /\ last.op = "execute_thumb"
    /\ last.arg = 6640
    /\ nsteps = 1
    /\ reg.r[0] = <<0, 0>>
    /\ reg.r[6] = <<65535, 65535>>
    /\ reg.r[7] = <<0, 1>>
    /\ Flags(reg.cpsr) = <<FALSE, TRUE, TRUE, FALSE>>

\* a signed offset of a few thousand as a 32-bit word
Offset32(n) == IF n >= 0 THEN <<0, n>> ELSE <<65535, Half + n>>

\* the PC after a branch from r15 by a signed offset: the sum modulo 2^32,
\* halfword-aligned and advanced by the two instructions of the pipeline reload
BranchTarget(r15, n) ==
    LET sum == Add32(r15, Offset32(n), 0).value
    IN  Add32(<<sum[1], sum[2] - (sum[2] % 2)>>, <<0, 4>>, 0).value

\* the 4-bit condition on the flags <<signed, zero, carry, overflow>>
ConditionHolds(f, cond) ==
    CASE cond = 0 -> f[2]
      [] cond = 1 -> ~f[2]
      [] cond = 2 -> f[3]
      [] cond = 3 -> ~f[3]
      [] cond = 4 -> f[1]
      [] cond = 5 -> ~f[1]
      [] cond = 6 -> f[4]
      [] cond = 7 -> ~f[4]
      [] cond = 8 -> f[3] /\ ~f[2]
      [] cond = 9 -> ~f[3] \/ f[2]
      [] cond = 10 -> f[1] = f[4]
      [] cond = 11 -> f[1] # f[4]
      [] cond = 12 -> ~f[2] /\ f[1] = f[4]
      [] cond = 13 -> f[2] \/ f[1] # f[4]
      [] cond = 14 -> TRUE
      [] OTHER -> FALSE

\* the offset field of a branch as a signed number
SignedField(instr, width) ==
    IF Bits(instr, 0, width) >= Pow2(width - 1)
    THEN Bits(instr, 0, width) - Pow2(width)
    ELSE Bits(instr, 0, width)

\* every register but r15, the banks and both status registers are as before
OnlyPcMoves ==
    /\ \A i \in 0..14 : reg'.r[i] = reg.r[i]
    /\ [reg' EXCEPT !.r = reg.r] = reg

\* C35: a conditional branch moves the PC to r15 plus twice its sign-extended
\* 8-bit offset (then reloads the pipeline) exactly when its condition holds on
\* the flags, and otherwise changes no register; an unconditional branch always
\* moves the PC to r15 plus twice its sign-extended 11-bit offset; the sum wraps
\* modulo 2^32 and neither branch changes the flags.
C35_Branch ==
    [][last'.op = "execute_thumb" =>
         LET instr == last'.arg
             r15 == reg.r[PC_INDEX]
         IN  /\ last'.value = "thumb16" =>
                   IF ConditionHolds(Flags(reg.cpsr), Bits(instr, 8, 12))
                   THEN /\ reg'.r[PC_INDEX] = BranchTarget(r15, 2 * SignedField(instr, 8))
                        /\ OnlyPcMoves
                   ELSE reg' = reg
             /\ last'.value = "thumb18" =>
                   /\ reg'.r[PC_INDEX] = BranchTarget(r15, 2 * SignedField(instr, 11))
                   /\ OnlyPcMoves]_vars

\* BHI -256 taken first from r15 = 4 with carry set and zero clear: the sum
\* wraps below zero to 0xffff_ff04, and the reload leaves 0xffff_ff08
C35_Witness ==
    /\ last.op = "execute_thumb"
    /\ last.arg = 55424
    /\ last.value = "thumb16"
    /\ nsteps = 1
    /\ reg.cpsr.carry
    /\ ~reg.cpsr.zero
    /\ reg.r[PC_INDEX] = <<65535, 65288>>

----------------------------------------------------------------------------
(* Properties of the DMA controller's enabled flag, running addresses and  *)
(* audio FIFO destination, checked under SpecDma, SpecUnits and SpecFifo.  *)

\* C36, as stated: after any register writes, notifications and steps, every
\* channel whose transfer state is not Idle is enabled (so that
\* transfer_in_progress is true only where step finds a channel to service).
C36_Original ==
    \A c \in Channels : dma[c].state # "None" => dma[c].enabled

\* an address moved by n bytes under an address control: up for 0 and 3, down
\* for 1, not at all for 2, modulo 2^32
Strided(addr, ctrl, n) ==
    CASE ctrl \in {0, 3} -> Add32(addr, <<0, n>>, 0).value
      [] ctrl = 1 -> Add32(addr, Not32(<<0, n>>), 1).value
      [] ctrl = 2 -> addr

\* the units of the effect a step has just returned are at the serviced
\* channel's addresses before the step, moved one stride per unit
UnitsFromChannel ==
    LET c      == last'.chan
        pre    == dma[c]
        fifo   == c \in 1 .. 2 /\ pre.timing_mode = 3
        stride == IF fifo \/ pre.transfer_word THEN 4 ELSE 2
        units  == transfer_addrs(effect', effect'.blocks, effect'.src_addr, effect'.dst_addr)
    IN  /\ effect'.chan = c
        /\ Len(units) = effect'.blocks + 1
        /\ \A i \in 0 .. effect'.blocks - 1 :
             /\ units[i + 1][1] = Strided(pre.src_addr, pre.src_addr_ctrl, i * stride)
             /\ units[i + 1][2] = Strided(pre.dst_addr, IF fifo THEN 2 ELSE pre.dst_addr_ctrl, i * stride)

\* the addresses the effect's loop ends with
AfterLastUnit ==
    LET units == transfer_addrs(effect', effect'.blocks, effect'.src_addr, effect'.dst_addr)
    IN  units[Len(units)]

\* C37, as stated: the effect of a step reads and writes its k units at the
\* channel's running addresses moved one stride per unit by the address
\* controls, and after the step the channel's running source and destination
\* are the addresses the effect holds after its last unit.
C37_Original ==
    [][last'.op = "step" =>
         /\ UnitsFromChannel
         /\ dma'[last'.chan].src_addr = AfterLastUnit[1]
         /\ dma'[last'.chan].dst_addr = AfterLastUnit[2]]_vars

\* C37 amended: as stated, except that a step which ends the transfer of a
\* repeating channel with destination control 3 leaves the running
\* destination reloaded from the destination register.
C37_UnitAddresses ==
    [][last'.op = "step" =>
         LET pre == dma[last'.chan]
             reloads == /\ left_after(pre, last'.arg) = 0
                        /\ pre.repeat
                        /\ pre.dst_addr_ctrl = 3
         IN  /\ UnitsFromChannel
             /\ dma'[last'.chan].src_addr = AfterLastUnit[1]
             /\ dma'[last'.chan].dst_addr =
                  IF reloads THEN pre.initial_dst_addr ELSE AfterLastUnit[2]]_vars

\* a step has just moved three half-words of channel 3 downwards from source
\* 2: the second was read at 0 and the third at 0xffff_fffe, and the running
\* source is 0xffff_fffc
C37_Witness ==
    /\ last.op = "step"
    /\ last.chan = 3
    /\ effect.blocks = 3
    /\ effect.stride = 2
    /\ effect.src_addr = <<0, 2>>
    /\ effect.src_addr_ctrl = 1
    /\ dma[3].src_addr = <<65535, 65532>>
    /\ dma[3].rem_blocks = 2

\* C38, as stated: the transfer an AudioFifoA (AudioFifoB) notification
\* starts writes every unit to 0x0400_00a0 (0x0400_00a4), whatever register
\* writes came before the notification: the effect the next step builds for
\* the started channel has that destination, held fixed.
C38_Original ==
    [][(last'.op = "notify" /\ last'.arg \in FifoEvents) =>
         \A c \in Channels, n \in StepCycles :
            Started(c) =>
               LET units == step_effect(dma', c, n)
               IN  /\ units.dst_addr = fifo_addr(last'.arg)
                   /\ units.dst_addr_ctrl = 2]_vars

----------------------------------------------------------------------------
(* Frame properties of the mode change and of a failed control write,      *)
(* checked under SpecMode and SpecPsr.                                     *)

\* C39: a change_mode leaves r0-r7 and r15 as they were, and of the CPSR
\* changes nothing but the mode (the flags, the interrupt-disable bits and
\* the state bit stay); r8-r12 change only when the old or the new mode is
\* FastInterrupt and the two modes have different banks.
C39_ModeFrame ==
    [][last'.op = "change_mode" =>
         /\ \A i \in (0 .. 7) \cup {PC_INDEX} : reg'.r[i] = reg.r[i]
         /\ reg'.cpsr = [reg.cpsr EXCEPT !.mode = reg'.cpsr.mode]
         /\ (\E i \in 8 .. 12 : reg'.r[i] # reg.r[i]) =>
              /\ "FastInterrupt" \in {last'.from, last'.arg}
              /\ bank_index(last'.from) # bank_index(last'.arg)]_vars

\* FIQ has just been entered from registers filled with 3 and r8 = 1: r8-r12
\* now show the hidden bank's zeros, r0-r7 and r15 still hold 3
C39_Witness ==
    /\ last.op = "change_mode"
    /\ last.arg = "FastInterrupt"
    /\ last.from # "FastInterrupt"
    /\ entry.r[8] = 1
    /\ entry.r[12] = 3
    /\ \A i \in 8 .. 12 : reg.r[i] = 0
    /\ \A i \in (0 .. 7) \cup {PC_INDEX} : reg.r[i] = 3
    /\ reg.cpsr.mode = "FastInterrupt"

\* C40, as stated: a status-control write that returns an error leaves the
\* status register as it was before the call, IRQ-disabled bit, FIQ-disabled
\* bit and mode included.
C40_Original ==
    [][(last'.op = "set_control" /\ last'.value = "Err") =>
         reg'.cpsr = reg.cpsr]_vars

====
